---- MODULE Spec2Model ----
(***************************************************************************)
(* Model of rio's tar transmat: unpack (warehouse selection, extraction,   *)
(* hash verification) and unpackTar (the entry loop, implicit parents,     *)
(* directory mtime repair), from src/transmat/tar/tar_unpack.go.           *)
(*                                                                         *)
(* Paths are sequences of components.  The operating system's tree is one  *)
(* function from absolute locations to nodes; the unpack target is the     *)
(* subtree under TargetPath, everything else is "outside".                 *)
(* Arguments are taken as sanitized: the path is absolute and the filter   *)
(* specification is one ProcessFilters accepts (lines 77-82).              *)
(***************************************************************************)
EXTENDS Integers, Sequences, FiniteSets, TLC

VARIABLES
    command,     \* how the program was entered: a rio subcommand, or a direct call
    calls,       \* the functions invoked so far
    fs0,         \* the filesystem as it was when the operation started
    wareID,      \* argument: the declared ware id
    warehouses,  \* argument: the warehouse addresses, in declared order
    filt,        \* filt2, the processed filters
    ctxErr,      \* ctx.Err() # nil: the context has been cancelled
    cancelledAt, \* where unpack was when the caller cancelled, "" before that
    pc,          \* position in unpack / unpackTar
    idx,         \* index of the warehouse the selection loop is looking at
    reader,      \* the reader variable of unpack: NoReader or a handle
    opened,      \* handles OpenReader has returned
    closed,      \* handles Close was called on
    pos,         \* tar headers read so far
    thdr,        \* the tar header read last
    fmeta,       \* its metadata after TarHdrToMetadata and filters.Apply
    fs,          \* the filesystem: absolute location -> node
    bucket,      \* fshash.MemoryBucket: the records, in AddRecord order
    gotWare,     \* what unpackTar returned to unpack
    result,      \* what unpack returned: [ware, err]
    parseErr,    \* the error app.Parse returned, "nil" if none
    format,      \* oc.format
    stdout,      \* what was written to Main's stdout, in order
    stderr,      \* what was written to Main's stderr, in order
    exitCode,    \* what Main returned, NotExited before
    srcPath,     \* CopyPlacer argument: the absolute source location
    dstPath,     \* CopyPlacer argument: the absolute destination location
    ppc,         \* position in CopyPlacer
    srcStat,     \* the type rootFs.LStat reported for the source
    parentMtime, \* the mtime fsOp.RepairMtime captured
    walk,        \* fs.Walk: the visits still to make, in order
    placement,   \* what CopyPlacer returned: [cleanup, err]
    sigpc,       \* position of the CancelOnInterrupt goroutine
    sigints,     \* what became of each SIGINT delivered to the process, in order
    proc,        \* the process: running, or how it ended
    cpc,         \* position of each caller of the cached unpack
    lock,        \* the caller that holds the ware's lock file, NoCaller if free
    committed,   \* what is at committed/<wareID>
    staging,     \* what is in each caller's staging directory
    inner,       \* the invocations of the inner unpack function, in order
    outcome      \* what each caller's call came to: [via, tree, err]

placerVars == <<srcPath, dstPath, ppc, srcStat, parentMtime, walk, placement>>

mainVars == <<parseErr, format, stdout, stderr, exitCode>>

\* What the operations modelled apart from unpack keep.
sigVars == <<sigpc, sigints, proc>>

cacheVars == <<cpc, lock, committed, staging, inner, outcome>>

otherVars == <<placerVars, sigVars, cacheVars>>

vars == <<command, calls, fs0, wareID, warehouses, filt, ctxErr, cancelledAt, pc, idx,
          reader, opened, closed, pos, thdr, fmeta, fs, bucket, gotWare, result,
          mainVars, otherVars>>

-----------------------------------------------------------------------------
(* Bounds *)

MaxWarehouses == 3

MaxEntries == 3

\* The SIGINTs the terminal sends.
MaxSigints == 3

\* The concurrent calls of the cached unpack, all for one ware.
MaxCallers == 2

-----------------------------------------------------------------------------
(* Error categories and values *)

ErrUsage == "ErrUsage"

ErrWarehouseUnavailable == "ErrWarehouseUnavailable"

ErrWareNotFound == "ErrWareNotFound"

ErrWareCorrupt == "ErrWareCorrupt"

ErrWareHashMismatch == "ErrWareHashMismatch"

ErrCancelled == "ErrCancelled"

ErrInoperablePath == "ErrInoperablePath"

ErrLocalCacheProblem == "ErrLocalCacheProblem"

ErrAssemblyInvalid == "ErrAssemblyInvalid"

\* An error that was returned as it came, without a category of rio's.
Uncategorized == "uncategorized"

NilCategory == "nil"

\* An error value: its category and its details map (a set of key/value pairs).
Errorf(cat) == [cat |-> cat, details |-> {}]

ErrorDetailed(cat, details) == [cat |-> cat, details |-> details]

NilErr == [cat |-> NilCategory, details |-> {}]

Category(err) == err.cat

-----------------------------------------------------------------------------
(* Ware ids *)

PackType == "tar"

\* api.WareID{}: the zero value.
ZeroWareID == [type |-> "", hash |-> <<>>]

\* WareID.String(): "<type>:<hash>".
WareIDString(w) == <<w.type, ":">> \o w.hash

\* misc.Base58Encode: the digest rendered over the base58 alphabet.
Base58Encode(digest) == <<"b58", digest>>

-----------------------------------------------------------------------------
(* Paths *)

\* fs.RelPath{}: the root of the fileset, ".".
RootName == <<>>

\* RelPath.Dir(): the path without its last component.
Dir(name) == IF name = <<>> THEN <<>> ELSE SubSeq(name, 1, Len(name) - 1)

\* Normalization of a header's name into a RelPath (path.Clean): "." dropped,
\* "x/.." folded, leading ".." kept.
RECURSIVE CleanInto(_, _)
CleanInto(acc, raw) ==
    IF raw = <<>> THEN acc
    ELSE LET c == Head(raw) IN
         IF c = "." THEN CleanInto(acc, Tail(raw))
         ELSE IF c = ".." /\ acc # <<>> /\ acc[Len(acc)] # ".."
              THEN CleanInto(Dir(acc), Tail(raw))
              ELSE CleanInto(Append(acc, c), Tail(raw))

MustRelPath(raw) == CleanInto(<<>>, raw)

\* The names that strings.HasPrefix(name.String(), "..") accepts as staying
\* inside: a cleaned path starts with ".." exactly when its first component does.
HasDotDotPrefix_Off(name) == FALSE

HasDotDotPrefix(name) == name # <<>> /\ name[1] = ".."

-----------------------------------------------------------------------------
(* The filesystem *)

\* path2, the absolute path osfs.New is rooted at.
TargetPath == <<"t">>

Type_File == "file"

Type_Dir == "dir"

Type_Symlink == "symlink"

Type_Hardlink == "hardlink"

Type_Invalid == "invalid"

\* Modification times are symbolic: no arithmetic is done on them.
MtimeFixture == "2015-05-30T19:53:35Z"

MtimeDefault == "default"

MtimeForced == "forced"

MtimeNow == "now"

\* Permission bits are symbolic as well.
PermsDir == "0755"

PermsFile == "0644"

PermsLink == "0777"

\* The mode of a fresh temporary directory (ioutil.TempDir).
PermsTmpdir == "0700"

\* File bodies: the fixtures' files are empty.
EmptyBody == ""

Node(type, mtime, link, perms, content) ==
    [type |-> type, mtime |-> mtime, link |-> link, perms |-> perms, content |-> content]

\* The machine before unpack runs: "/", an outside directory "/o" holding a
\* file "/o/f", and the (empty) target directory "/t".
InitFS ==
    (<<>> :> Node(Type_Dir, MtimeFixture, <<>>, PermsDir, EmptyBody)) @@
    (<<"o">> :> Node(Type_Dir, MtimeFixture, <<>>, PermsDir, EmptyBody)) @@
    (<<"o", "f">> :> Node(Type_File, MtimeFixture, <<>>, PermsFile, EmptyBody)) @@
    (TargetPath :> Node(Type_Dir, MtimeFixture, <<>>, PermsTmpdir, EmptyBody))

\* The same machine with a directory "a" already in the target directory.
InitFSWithDir ==
    InitFS @@ ((TargetPath \o <<"a">>) :> Node(Type_Dir, MtimeFixture, <<>>, PermsDir, EmptyBody))

\* The filesystems unpack may be started on.

Inside(loc) ==
    /\ Len(loc) >= Len(TargetPath)
    /\ SubSeq(loc, 1, Len(TargetPath)) = TargetPath

\* The part of a filesystem that lies outside the target directory.
Outside(f) == [loc \in {l \in DOMAIN f : ~Inside(l)} |-> f[loc]]

\* Kernel path resolution of an absolute path: ".." steps to the parent, a
\* symlink met before the last component is followed; the last component is
\* not followed (lstat, mkdir, open with O_EXCL, symlink, link).
RECURSIVE Walk(_, _, _)
Walk(f, cur, rest) ==
    IF rest = <<>> THEN cur
    ELSE LET c == Head(rest)
             nxt == IF c = ".." THEN Dir(cur) ELSE Append(cur, c)
         IN  IF /\ Len(rest) > 1
                /\ nxt \in DOMAIN f
                /\ f[nxt].type = Type_Symlink
             THEN Walk(f, f[nxt].link, Tail(rest))
             ELSE Walk(f, nxt, Tail(rest))

\* osfs: the location a relative path names, basePath.Join(name).
ResolveAt(base, f, name) == Walk(f, base, name)

Resolve(f, name) == ResolveAt(TargetPath, f, name)

\* A location below something that is not a directory (ENOTDIR).
BelowNonDir(f, loc) ==
    \E k \in 0..(Len(loc) - 1) :
        /\ SubSeq(loc, 1, k) \in DOMAIN f
        /\ f[SubSeq(loc, 1, k)].type # Type_Dir

\* afs.LStat: "nil", "notexist" (os.IsNotExist) or "other".
LStatAt(base, f, name) ==
    LET loc == ResolveAt(base, f, name) IN
    IF loc \in DOMAIN f THEN "nil"
    ELSE IF BelowNonDir(f, loc) THEN "other"
    ELSE "notexist"

LStat(f, name) == LStatAt(TargetPath, f, name)

\* afs.SetTimesNano.
SetTimesNanoAt(base, f, name, mtime) ==
    LET loc == ResolveAt(base, f, name) IN
    IF loc \in DOMAIN f THEN [err |-> FALSE, fs |-> [f EXCEPT ![loc].mtime = mtime]]
    ELSE [err |-> TRUE, fs |-> f]

SetTimesNano(f, name, mtime) == SetTimesNanoAt(TargetPath, f, name, mtime)

-----------------------------------------------------------------------------
(* fsOp.PlaceFile *)

\* The proper, non-root ancestors of a relative path.
Ancestors(name) == {SubSeq(name, 1, k) : k \in 1..(Len(name) - 1)}

\* Some directory on the way to the path is a symlink: placing there would
\* traverse it (fs.ErrBreakout: LinkPath, LinkTarget).
TraversesSymlinkAt(base, f, name) ==
    \E p \in Ancestors(name) :
        /\ ResolveAt(base, f, p) \in DOMAIN f
        /\ f[ResolveAt(base, f, p)].type = Type_Symlink

TraversesSymlink(f, name) == TraversesSymlinkAt(TargetPath, f, name)

\* A hardlink's target, a path relative to the root, leaves the root.
HardlinkBreakoutAt(base, f, link) ==
    LET target == MustRelPath(link) IN
    \/ (target # <<>> /\ target[1] = "..")
    \/ TraversesSymlinkAt(base, f, target)
    \/ /\ ResolveAt(base, f, target) \in DOMAIN f
       /\ f[ResolveAt(base, f, target)].type = Type_Symlink

HardlinkBreakout(f, link) == HardlinkBreakoutAt(TargetPath, f, link)

\* The node a metadata record describes once placed with a body.  A hardlink
\* is one more name of a regular file.
PlacedNode(meta, body) ==
    Node(IF meta.type = Type_Hardlink THEN Type_File ELSE meta.type,
         meta.mtime,
         IF meta.type = Type_Symlink THEN meta.link ELSE <<>>,
         meta.perms,
         IF meta.type = Type_File THEN body ELSE EmptyBody)

\* Creating a directory entry: the node appears and its parent's mtime moves.
Create(f, loc, node) ==
    [l \in DOMAIN f \cup {loc} |->
        IF l = loc THEN node
        ELSE IF l = Dir(loc) THEN [f[l] EXCEPT !.mtime = MtimeNow]
        ELSE f[l]]

\* PlaceFile(afs, fmeta, body, skipChown): [err, fs].  No parent is created;
\* a directory that exists has its properties applied again; any other node
\* that exists is in the way.
PlaceFileAt(base, f, meta, body) ==
    LET loc == ResolveAt(base, f, meta.name) IN
    IF TraversesSymlinkAt(base, f, meta.name)
    THEN [err |-> "ErrBreakout", fs |-> f]
    ELSE IF loc \in DOMAIN f
    THEN IF meta.type = Type_Dir /\ f[loc].type = Type_Dir
         THEN [err |-> "nil",
               fs |-> [f EXCEPT ![loc].mtime = meta.mtime, ![loc].perms = meta.perms]]
         ELSE [err |-> "ErrAlreadyExists", fs |-> f]
    ELSE IF Dir(loc) \notin DOMAIN f
    THEN [err |-> IF BelowNonDir(f, loc) THEN "ErrNotDir" ELSE "ErrNotExists", fs |-> f]
    ELSE IF f[Dir(loc)].type # Type_Dir
    THEN [err |-> "ErrNotDir", fs |-> f]
    ELSE IF meta.type = Type_Hardlink /\ HardlinkBreakoutAt(base, f, meta.link)
    THEN [err |-> "ErrBreakout", fs |-> f]
    ELSE IF /\ meta.type = Type_Hardlink
            /\ \/ ResolveAt(base, f, MustRelPath(meta.link)) \notin DOMAIN f
               \/ f[ResolveAt(base, f, MustRelPath(meta.link))].type # Type_File
    THEN [err |-> "ErrNotExists", fs |-> f]
    ELSE [err |-> "nil", fs |-> Create(f, loc, PlacedNode(meta, body))]

\* PlaceFile on the filesystem unpack works in; the bodies it drains are empty.
PlaceFile(f, meta) == PlaceFileAt(TargetPath, f, meta, EmptyBody)

-----------------------------------------------------------------------------
(* Tar headers, metadata, filters *)

\* The mode a header of the given typeflag carries in the streams considered.
ModeOfFlag(flag) ==
    CASE flag = "5" -> PermsDir
      [] flag = "2" -> PermsLink
      [] OTHER -> PermsFile

Hdr(name, typeflag, link) ==
    [name |-> name, typeflag |-> typeflag, mtime |-> MtimeFixture, link |-> link,
     mode |-> ModeOfFlag(typeflag)]

NoHdr == [name |-> <<>>, typeflag |-> "", mtime |-> "", link |-> <<>>, mode |-> ""]

NoMeta == [name |-> <<>>, type |-> Type_Invalid, mtime |-> "", link |-> <<>>, perms |-> ""]

\* The typeflag mapping of TarHdrToMetadata.
TypeOfFlag(flag) ==
    CASE flag = "0" -> Type_File
      [] flag = "5" -> Type_Dir
      [] flag = "2" -> Type_Symlink
      [] flag = "1" -> Type_Hardlink
      [] OTHER -> Type_Invalid

\* TarHdrToMetadata: [err, meta].
TarHdrToMetadata(hdr) ==
    IF TypeOfFlag(hdr.typeflag) = Type_Invalid
    THEN [err |-> Errorf(ErrWareCorrupt), meta |-> NoMeta]
    ELSE [err |-> NilErr,
          meta |-> [name |-> MustRelPath(hdr.name), type |-> TypeOfFlag(hdr.typeflag),
                    mtime |-> hdr.mtime, link |-> hdr.link, perms |-> hdr.mode]]

\* The processed filters: keep the mtime, or force one.
Filters == {[mtime |-> "keep"], [mtime |-> MtimeForced]}

\* filters.Apply.
Apply(fl, meta) ==
    IF fl.mtime = "keep" THEN meta ELSE [meta EXCEPT !.mtime = fl.mtime]

\* fshash.DefaultDirMetadata.
DefaultDirMetadata ==
    [name |-> RootName, type |-> Type_Dir, mtime |-> MtimeDefault, link |-> <<>>,
     perms |-> PermsDir]

-----------------------------------------------------------------------------
(* The hashing bucket *)

NoContent == <<>>

\* The sum of a util.HashingReader that drained a file's (empty) body.
ContentHash == <<"sha384", "">>

Record(meta, content) == [Metadata |-> meta, ContentHash |-> content]

HasRoot(b) == \E i \in DOMAIN b : b[i].Metadata.name = RootName

\* Bucket processing creates a root record if the stream had none.
WithRoot(b) ==
    IF HasRoot(b) THEN b ELSE <<Record(DefaultDirMetadata, NoContent)>> \o b

\* bucket.Root().
Root(b) == LET w == WithRoot(b) IN w[CHOOSE i \in DOMAIN w : w[i].Metadata.name = RootName]

\* Two records of one name: iterating the bucket blows up.
HasDuplicates_Never(b) == FALSE

HasDuplicates(b) ==
    \E i, j \in DOMAIN b : i < j /\ b[i].Metadata.name = b[j].Metadata.name

\* fshash.HashBucket: the digest of the records in canonical order.  The digest
\* is collision-free here: it is the set of the records.
HashBucket(b) == {WithRoot(b)[i] : i \in DOMAIN WithRoot(b)}

\* The ware id unpackTar computes (line 257).
ComputedWare(b) == [type |-> PackType, hash |-> Base58Encode(HashBucket(b))]
-----------------------------------------------------------------------------
(* Warehouses *)

\* What a warehouse address stands for: whether url.Parse accepts it, its
\* scheme, the category of the error NewController answers with, the category
\* OpenReader answers with, and the blob it serves.
Addr(uri, scheme, ctrl, open, blob) ==
    [uri |-> uri, scheme |-> scheme, ctrl |-> ctrl, open |-> open, blob |-> blob]

Malformed == Addr("malformed", "", NilCategory, NilCategory, "none")

Unsupported == Addr("ok", "s3", NilCategory, NilCategory, "none")

Unavailable(scheme) == Addr("ok", scheme, ErrWarehouseUnavailable, NilCategory, "none")

\* NewController failing in a category other than ErrWarehouseUnavailable.
CtrlFails(scheme) == Addr("ok", scheme, ErrWareNotFound, NilCategory, "none")

NotFound(scheme) == Addr("ok", scheme, NilCategory, ErrWareNotFound, "none")

\* OpenReader failing in a category other than ErrWareNotFound.
OpenFails(scheme) == Addr("ok", scheme, NilCategory, ErrWarehouseUnavailable, "none")

Serving(scheme, blob) == Addr("ok", scheme, NilCategory, NilCategory, blob)

\* The fixtures of TestTarFixtureUnpack: a gnu tar with a base dir entry
\* ("./", "./ab", "./bc/") and one without ("ab", "bc/").
Fixture(blob) ==
    IF blob = "tar_withBase"
    THEN << Hdr(<<".">>, "5", <<>>), Hdr(<<".", "a">>, "0", <<>>), Hdr(<<".", "b">>, "5", <<>>) >>
    ELSE << Hdr(<<"a">>, "0", <<>>), Hdr(<<"b">>, "5", <<>>) >>

FixtureBlobs == {"tar_withBase", "tar_sansBase"}

\* The headers a crafted (arbitrary) tar stream may hold.
CraftedHeaders ==
    {Hdr(n, "5", <<>>) : n \in {<<".">>, <<"a">>, <<"a", "b">>, <<"..">>}} \cup
    {Hdr(n, "0", <<>>) : n \in {<<"a">>, <<"b">>, <<"a", "b">>, <<"a", "..", "b">>,
                                <<"..", "b">>, <<"a", "..", "..", "b">>}} \cup
    {Hdr(<<"a">>, "2", <<"o">>)} \cup
    {Hdr(<<"b">>, "1", l) : l \in {<<"a">>, <<"..", "o", "f">>}} \cup
    {Hdr(<<"a">>, "?", <<>>)}

WarehouseKinds ==
    {Malformed, Unsupported,
     Unavailable("file"), CtrlFails("https"), NotFound("file"), OpenFails("https"),
     Serving("file", "tar_withBase"), Serving("https", "tar_sansBase")}

SeqsUpTo(S, n) == UNION {[1..k -> S] : k \in 0..n}

\* The lists of warehouses unpack is called with: any list of the kinds above,
\* or a single warehouse serving a crafted tar.
WarehouseLists == SeqsUpTo(WarehouseKinds, MaxWarehouses) \cup {<<Serving("file", "crafted")>>}

\* The records a fixture yields when unpacked with filters that keep everything.
RECURSIVE FixtureRecords(_)
FixtureRecords(hdrs) ==
    IF hdrs = <<>> THEN <<>>
    ELSE LET m == TarHdrToMetadata(Head(hdrs)).meta IN
         <<Record(m, IF m.type = Type_File THEN ContentHash ELSE NoContent)>>
            \o FixtureRecords(Tail(hdrs))

\* The ware ids callers declare: those of the fixtures.
DeclaredWares == {ComputedWare(FixtureRecords(Fixture(b))) : b \in FixtureBlobs}

-----------------------------------------------------------------------------
(* The calls considered *)

NoReader == 0

NoResult == [ware |-> ZeroWareID, err |-> NilErr]

\* CopyPlacer has not been called.
NoPlacement == [cleanup |-> "nil", err |-> NilErr, cleanupErr |-> NilErr]

\* The cached unpack has not been called.
CacheIdle ==
    /\ cpc = <<>>
    /\ lock = 0
    /\ committed = "absent"
    /\ staging = <<>>
    /\ inner = <<>>
    /\ outcome = <<>>

\* main has not been started.
SignalIdle ==
    /\ sigpc = "idle"
    /\ sigints = <<>>
    /\ proc = "idle"

PlacerIdle ==
    /\ srcPath = <<>>
    /\ dstPath = <<>>
    /\ ppc = "idle"
    /\ srcStat = Type_Invalid
    /\ parentMtime = ""
    /\ walk = <<>>
    /\ placement = NoPlacement

\* The rio subcommands that pick a transmat by pack type, and a direct call
\* of tartrans.Unpack such as TestTarFixtureUnpack makes.
CliCommands == {"pack", "unpack", "scan"}

Commands == CliCommands \cup {"api", "", "bogus"}

\* A ware id of a pack type this transmat does not implement.
ForeignWare == [type |-> "git", hash |-> <<"b58", {}>>]

\* The lists used where the variety of warehouses is beside the point.
ShortLists == {<<>>, <<Serving("file", "tar_withBase")>>, <<Serving("file", "crafted")>>}

\* Main has not returned.
NotExited == -1

\* What app.Parse refuses, lines 240-251: no command, an unknown command, a
\* command without a required argument (lines 133-138).
ParseErrors ==
    {[command |-> "", err |-> "command not specified"],
     [command |-> "bogus", err |-> "expected command but got \"bogus\""],
     [command |-> "unpack", err |-> "required argument 'ware' not provided"]}

\* The calls made: a direct call with any list of warehouses on an empty
\* target; a direct call on a target that holds a directory already; any
\* entry point with any pack type.  For pack and scan the pack type argument
\* is the type of wareID.  A command line has been through Parse: either it
\* named a behavior and oc.format is the --format given, or app.Parse
\* refused it, having printed the usage if no command was named; what
\* oc.format is then is the parser's business.
Init ==
    /\ \/ /\ command = "api"
          /\ wareID \in DeclaredWares
          /\ warehouses \in WarehouseLists
          /\ fs = InitFS
          /\ parseErr = "nil"
          /\ format = ""
       \/ /\ command = "api"
          /\ wareID \in DeclaredWares
          /\ warehouses \in ShortLists
          /\ fs \in {InitFS, InitFSWithDir}
          /\ parseErr = "nil"
          /\ format = ""
       \/ /\ command \in Commands
          /\ wareID \in DeclaredWares \cup {ForeignWare}
          /\ warehouses \in ShortLists
          /\ fs = InitFS
          /\ parseErr = "nil"
          /\ format \in IF command = "api" THEN {""} ELSE {"dumb", "json"}
       \/ /\ \E e \in ParseErrors : command = e.command /\ parseErr = e.err
          /\ wareID = ZeroWareID
          /\ warehouses = <<>>
          /\ fs = InitFS
          /\ format \in {"", "dumb", "json"}
    /\ stdout = <<>>
    /\ stderr = IF parseErr = "command not specified"
                THEN <<[text |-> "usage: rio [<flags>] <command> [<args> ...]", nl |-> TRUE]>>
                ELSE <<>>
    /\ exitCode = NotExited
    /\ fs0 = fs
    /\ calls = {}
    /\ filt \in Filters
    /\ ctxErr = FALSE
    /\ cancelledAt = ""
    /\ pc = "start"
    /\ idx = 1
    /\ reader = NoReader
    /\ opened = {}
    /\ closed = {}
    /\ pos = 0
    /\ thdr = NoHdr
    /\ fmeta = NoMeta
    /\ bucket = <<>>
    /\ gotWare = ZeroWareID
    /\ result = NoResult
    /\ PlacerIdle
    /\ SignalIdle
    /\ CacheIdle

-----------------------------------------------------------------------------
(* unpack: the switches of the warehouse selection, lines 94-123 *)

\* The switch on u.Scheme, lines 94-101.
SchemeSupported(scheme) == scheme \in {"file", "ca+file", "http", "ca+http", "https", "ca+https"}

\* The switch on Category(err) after NewController, lines 102-110.
CtrlDisposition_Swallow(cat) ==
    IF cat = NilCategory THEN "pass" ELSE "continue"

CtrlDisposition(cat) ==
    CASE cat = NilCategory -> "pass"
      [] cat = ErrWarehouseUnavailable -> "continue"
      [] OTHER -> "return"

\* The switch on Category(err) after OpenReader, lines 112-120.
OpenDisposition_Strict(cat) ==
    IF cat = NilCategory THEN "pass" ELSE "return"

OpenDisposition(cat) ==
    CASE cat = NilCategory -> "pass"
      [] cat = ErrWareNotFound -> "continue"
      [] OTHER -> "return"

\* The category of the error of line 123.
NoWarehouseCategory_Wrong == ErrWareNotFound

NoWarehouseCategory == ErrWarehouseUnavailable

\* A return before unpack's defer of reader.Close() is registered.
ReturnEarly(ware, err) ==
    /\ pc' = "done"
    /\ result' = [ware |-> ware, err |-> err]
    /\ UNCHANGED <<otherVars, mainVars, command, calls, fs0,
                   wareID, warehouses, filt, ctxErr, cancelledAt, idx, reader, opened,
                   closed, pos, thdr, fmeta, fs, bucket, gotWare>>

\* A call: the callee is noted and control moves to it.
Invoke(callees, at) ==
    /\ calls' = calls \cup callees
    /\ pc' = at
    /\ UNCHANGED <<otherVars, mainVars, command, fs0,
                   wareID, warehouses, filt, ctxErr, cancelledAt, idx, reader, opened,
                   closed, pos, thdr, fmeta, fs, bucket, gotWare, result>>

-----------------------------------------------------------------------------
(* The command line: demuxPackTool, demuxUnpackTool, demuxScanTool *)

demuxPackTool(packType) ==
    IF packType = "tar" THEN [tool |-> "tartrans.Pack", err |-> NilErr]
    ELSE [tool |-> "nil", err |-> Errorf(ErrUsage)]

demuxUnpackTool_Any(packType) == [tool |-> "tartrans.Unpack", err |-> NilErr]

demuxUnpackTool(packType) ==
    IF packType = "tar" THEN [tool |-> "tartrans.Unpack", err |-> NilErr]
    ELSE [tool |-> "nil", err |-> Errorf(ErrUsage)]

demuxScanTool(packType) ==
    IF packType = "tar" THEN [tool |-> "tartrans.Scan", err |-> NilErr]
    ELSE [tool |-> "nil", err |-> Errorf(ErrUsage)]

\* The demultiplexer a subcommand's behavior calls first.
Demux(cmd, packType) ==
    CASE cmd = "pack" -> demuxPackTool(packType)
      [] cmd = "unpack" -> demuxUnpackTool(packType)
      [] cmd = "scan" -> demuxScanTool(packType)

\* The behavior returns the demultiplexer's error.
CliUsage ==
    /\ pc = "start"
    /\ parseErr = "nil"
    /\ command \in CliCommands
    /\ Demux(command, wareID.type).err # NilErr
    /\ ReturnEarly(ZeroWareID, Demux(command, wareID.type).err)

\* The pack and scan behaviors call the function they were given; what it
\* does is outside this model.
CliPackOrScan ==
    /\ pc = "start"
    /\ parseErr = "nil"
    /\ command \in {"pack", "scan"}
    /\ Demux(command, wareID.type).err = NilErr
    /\ Invoke({Demux(command, wareID.type).tool}, "tool")

\* The unpack behavior calls the function it was given.
CliUnpack ==
    /\ pc = "start"
    /\ parseErr = "nil"
    /\ command = "unpack"
    /\ Demux(command, wareID.type).err = NilErr
    /\ Invoke({Demux(command, wareID.type).tool}, "unpack")

\* tartrans.Unpack called directly.
ApiUnpack ==
    /\ pc = "start"
    /\ command = "api"
    /\ Invoke({"tartrans.Unpack"}, "unpack")

-----------------------------------------------------------------------------
(* Main, Parse's behaviors and the output controller *)

\* rio.ExitCodeForError.
ExitCodeForError(err) ==
    CASE err = NilErr -> 0
      [] Category(err) = ErrUsage -> 2
      [] Category(err) = ErrWarehouseUnavailable -> 3
      [] Category(err) = ErrWareNotFound -> 4
      [] Category(err) = ErrWareCorrupt -> 5
      [] Category(err) = ErrWareHashMismatch -> 6
      [] Category(err) = ErrCancelled -> 7
      [] Category(err) = ErrInoperablePath -> 10
      [] Category(err) = ErrLocalCacheProblem -> 11
      [] OTHER -> 1

\* outputController.EmitResult, lines 264-288, on what was written so far:
\* [stdout, stderr].  Fprintln writes its argument and a newline; the
\* marshaller writes the event and nothing after it.
EmitResult_WareAlways(fmt, out, ware, err) ==
    [stdout |-> Append(out.stdout, [text |-> WareIDString(ware), nl |-> TRUE]),
     stderr |-> IF err # NilErr THEN Append(out.stderr, [text |-> err, nl |-> TRUE])
                ELSE out.stderr]

EmitResult(fmt, out, ware, err) ==
    LET evt == [prog |-> "null",
                result |-> [wareID |-> WareIDString(ware),
                            error |-> IF err = NilErr THEN "null" ELSE err.cat]]
        errLine == IF err # NilErr THEN Append(out.stderr, [text |-> err, nl |-> TRUE])
                   ELSE out.stderr
    IN  IF fmt = "json"
        THEN [stdout |-> Append(out.stdout, [text |-> evt, nl |-> FALSE]),
              stderr |-> errLine]
        ELSE [stdout |-> IF err # NilErr THEN out.stdout
                         ELSE Append(out.stdout, [text |-> WareIDString(ware), nl |-> TRUE]),
              stderr |-> errLine]

\* Lines 243-250: the behavior Parse returns for a command line it could not
\* parse.
UsageAction_Uncategorized ==
    /\ pc = "start"
    /\ parseErr # "nil"
    /\ LET err == Errorf(Uncategorized)
           out == EmitResult(format, [stdout |-> stdout, stderr |-> stderr], ZeroWareID, err)
       IN  /\ stdout' = out.stdout
           /\ stderr' = out.stderr
           /\ result' = [ware |-> ZeroWareID, err |-> err]
    /\ pc' = "done"
    /\ UNCHANGED <<otherVars, parseErr, format, exitCode, command, calls, fs0,
                   wareID, warehouses, filt, ctxErr, cancelledAt, idx, reader, opened,
                   closed, pos, thdr, fmeta, fs, bucket, gotWare>>

UsageAction ==
    /\ pc = "start"
    /\ parseErr # "nil"
    /\ LET err == Errorf(ErrUsage)
           out == EmitResult(format, [stdout |-> stdout, stderr |-> stderr], ZeroWareID, err)
       IN  /\ stdout' = out.stdout
           /\ stderr' = out.stderr
           /\ result' = [ware |-> ZeroWareID, err |-> err]
    /\ pc' = "done"
    /\ UNCHANGED <<otherVars, parseErr, format, exitCode, command, calls, fs0,
                   wareID, warehouses, filt, ctxErr, cancelledAt, idx, reader, opened,
                   closed, pos, thdr, fmeta, fs, bucket, gotWare>>

\* Lines 109-119 and 209-219: the pack or scan function returns a ware id or
\* an error.
ToolReturns ==
    /\ pc = "tool"
    /\ \E r \in {[ware |-> w, err |-> NilErr] : w \in DeclaredWares}
               \cup {[ware |-> ZeroWareID, err |-> Errorf(ErrWarehouseUnavailable)]} :
          result' = r
    /\ pc' = "tooldone"
    /\ UNCHANGED <<otherVars, mainVars, command, calls, fs0,
                   wareID, warehouses, filt, ctxErr, cancelledAt, idx, reader, opened,
                   closed, pos, thdr, fmeta, fs, bucket, gotWare>>

\* Lines 50-54 with 117-121, 175-179, 217-221 and 230-236: the function a
\* behavior called has returned; the behavior emits the ware id, or its
\* wrapper the error, and Main returns the exit code.  The behavior for a
\* command line that did not parse has emitted its error already.
MainReturn ==
    /\ pc \in {"done", "tooldone"}
    /\ command # "api"
    /\ exitCode = NotExited
    /\ LET out == IF parseErr # "nil" THEN [stdout |-> stdout, stderr |-> stderr]
                  ELSE EmitResult(format, [stdout |-> stdout, stderr |-> stderr],
                                  IF result.err = NilErr THEN result.ware ELSE ZeroWareID,
                                  result.err)
       IN  /\ stdout' = out.stdout
           /\ stderr' = out.stderr
    /\ exitCode' = ExitCodeForError(result.err)
    /\ UNCHANGED <<otherVars, parseErr, format, command, calls, fs0,
                   wareID, warehouses, filt, ctxErr, cancelledAt, pc, idx, reader, opened,
                   closed, pos, thdr, fmeta, fs, bucket, gotWare, result>>

-----------------------------------------------------------------------------
(* Unpack, lines 52-64 *)

\* Line 53.
SupportsPackType_Any(type) == TRUE

SupportsPackType(type) == type = PackType

\* Lines 53-55.
UnpackUsage ==
    /\ pc = "unpack"
    /\ ~SupportsPackType(wareID.type)
    /\ ReturnEarly(ZeroWareID, Errorf(ErrUsage))

\* Lines 56-63: the cache wrapper is built around unpack and called; it calls
\* unpack.
UnpackCached ==
    /\ pc = "unpack"
    /\ SupportsPackType(wareID.type)
    /\ Invoke({"cache.Lrn2Cache", "unpack"}, "select")

-----------------------------------------------------------------------------
(* unpack: warehouse selection, lines 84-125 *)

InLoop == pc = "select" /\ idx <= Len(warehouses)

\* Lines 89-92: url.Parse fails.
SelectMalformed ==
    /\ InLoop
    /\ warehouses[idx].uri = "malformed"
    /\ ReturnEarly(ZeroWareID, Errorf(ErrUsage))

\* Lines 99-100: the scheme is not one unpack knows.
SelectUnsupported ==
    /\ InLoop
    /\ warehouses[idx].uri = "ok"
    /\ ~SchemeSupported(warehouses[idx].scheme)
    /\ ReturnEarly(ZeroWareID, Errorf(ErrUsage))

HasController ==
    /\ InLoop
    /\ warehouses[idx].uri = "ok"
    /\ SchemeSupported(warehouses[idx].scheme)

\* Lines 105-107: the controller is unavailable; on to the next warehouse.
SelectCtrlContinue ==
    /\ HasController
    /\ CtrlDisposition(warehouses[idx].ctrl) = "continue"
    /\ idx' = idx + 1
    /\ UNCHANGED <<otherVars, mainVars, command, calls, fs0,
                   wareID, warehouses, filt, ctxErr, cancelledAt, pc, reader, opened, closed,
                   pos, thdr, fmeta, fs, bucket, gotWare, result>>

\* Lines 108-109: any other error of NewController is returned.
SelectCtrlReturn ==
    /\ HasController
    /\ CtrlDisposition(warehouses[idx].ctrl) = "return"
    /\ ReturnEarly(ZeroWareID, Errorf(warehouses[idx].ctrl))

HasOpened ==
    /\ HasController
    /\ CtrlDisposition(warehouses[idx].ctrl) = "pass"

\* Line 111 with lines 115-117: OpenReader answers (nil, ErrWareNotFound); the
\* nil is assigned to reader, and the loop goes on.
SelectOpenContinue ==
    /\ HasOpened
    /\ warehouses[idx].open # NilCategory
    /\ OpenDisposition(warehouses[idx].open) = "continue"
    /\ reader' = NoReader
    /\ idx' = idx + 1
    /\ UNCHANGED <<otherVars, mainVars, command, calls, fs0,
                   wareID, warehouses, filt, ctxErr, cancelledAt, pc, opened, closed,
                   pos, thdr, fmeta, fs, bucket, gotWare, result>>

\* Line 111 with lines 118-119: any other error of OpenReader is returned.
SelectOpenReturn ==
    /\ HasOpened
    /\ warehouses[idx].open # NilCategory
    /\ OpenDisposition(warehouses[idx].open) = "return"
    /\ pc' = "done"
    /\ reader' = NoReader
    /\ result' = [ware |-> ZeroWareID, err |-> Errorf(warehouses[idx].open)]
    /\ UNCHANGED <<otherVars, mainVars, command, calls, fs0,
                   wareID, warehouses, filt, ctxErr, cancelledAt, idx, opened, closed,
                   pos, thdr, fmeta, fs, bucket, gotWare>>

\* Line 111 with lines 113-114: OpenReader answers with a reader, which is
\* assigned to reader; the loop goes on to the next warehouse.
SelectOpenPass ==
    /\ HasOpened
    /\ OpenDisposition(warehouses[idx].open) = "pass"
    /\ warehouses[idx].open = NilCategory
    /\ reader' = idx
    /\ opened' = opened \cup {idx}
    /\ idx' = idx + 1
    /\ UNCHANGED <<otherVars, mainVars, command, calls, fs0,
                   wareID, warehouses, filt, ctxErr, cancelledAt, pc, closed,
                   pos, thdr, fmeta, fs, bucket, gotWare, result>>

\* Lines 122-124: the loop is over and reader is nil.
SelectNone ==
    /\ pc = "select"
    /\ idx > Len(warehouses)
    /\ reader = NoReader
    /\ ReturnEarly(ZeroWareID, Errorf(NoWarehouseCategory))

\* Lines 125-131: the loop is over with a reader; defer its Close and extract.
SelectDone ==
    /\ pc = "select"
    /\ idx > Len(warehouses)
    /\ reader # NoReader
    /\ pc' = "next"
    /\ UNCHANGED <<otherVars, mainVars, command, calls, fs0,
                   wareID, warehouses, filt, ctxErr, cancelledAt, idx, reader, opened, closed,
                   pos, thdr, fmeta, fs, bucket, gotWare, result>>
-----------------------------------------------------------------------------
(* unpackTar: the entry loop, lines 174-236 *)

\* A return of unpack after line 125: the deferred reader.Close() runs.
Return(ware, err) ==
    /\ pc' = "done"
    /\ result' = [ware |-> ware, err |-> err]
    /\ closed' = closed \cup {reader}

\* The blob the reader streams.
Blob == warehouses[reader].blob

\* The headers tr.Next() may answer with now.
NextHeaders ==
    IF Blob = "crafted"
    THEN IF pos < MaxEntries THEN CraftedHeaders ELSE {}
    ELSE IF pos < Len(Fixture(Blob)) THEN {Fixture(Blob)[pos + 1]} ELSE {}

\* Lines 176-181: tr.Next() answers io.EOF; the loop is left.
TarEOF ==
    /\ pc = "next"
    /\ Blob = "crafted" \/ pos = Len(Fixture(Blob))
    /\ pc' = "repair"
    /\ UNCHANGED <<otherVars, mainVars, command, calls, fs0,
                   wareID, warehouses, filt, ctxErr, cancelledAt, idx, reader, opened, closed,
                   pos, thdr, fmeta, fs, bucket, gotWare, result>>

\* Lines 182-184: tr.Next() answers another error.
TarCorrupt ==
    /\ pc = "next"
    /\ Blob = "crafted"
    /\ Return(ZeroWareID, Errorf(ErrWareCorrupt))
    /\ UNCHANGED <<otherVars, mainVars, command, calls, fs0,
                   wareID, warehouses, filt, ctxErr, cancelledAt, idx, reader, opened,
                   pos, thdr, fmeta, fs, bucket, gotWare>>

\* Lines 185-187: a header was read and the context is cancelled.
TarCancelled ==
    /\ pc = "next"
    /\ \E h \in NextHeaders :
        /\ ctxErr
        /\ thdr' = h
        /\ pos' = pos + 1
    /\ Return(ZeroWareID, Errorf(ErrCancelled))
    /\ UNCHANGED <<otherVars, mainVars, command, calls, fs0,
                   wareID, warehouses, filt, ctxErr, cancelledAt, idx, reader, opened,
                   fmeta, fs, bucket, gotWare>>

\* Lines 190-192: TarHdrToMetadata refuses the header.
TarBadHeader ==
    /\ pc = "next"
    /\ \E h \in NextHeaders :
        /\ ~ctxErr
        /\ TarHdrToMetadata(h).err # NilErr
        /\ thdr' = h
        /\ pos' = pos + 1
        /\ Return(ZeroWareID, TarHdrToMetadata(h).err)
    /\ UNCHANGED <<otherVars, mainVars, command, calls, fs0,
                   wareID, warehouses, filt, ctxErr, cancelledAt, idx, reader, opened,
                   fmeta, fs, bucket, gotWare>>

\* Lines 193-195: the name leaves the base dir.
TarDotDot ==
    /\ pc = "next"
    /\ \E h \in NextHeaders :
        /\ ~ctxErr
        /\ TarHdrToMetadata(h).err = NilErr
        /\ HasDotDotPrefix(TarHdrToMetadata(h).meta.name)
        /\ thdr' = h
        /\ pos' = pos + 1
    /\ Return(ZeroWareID, Errorf(ErrWareCorrupt))
    /\ UNCHANGED <<otherVars, mainVars, command, calls, fs0,
                   wareID, warehouses, filt, ctxErr, cancelledAt, idx, reader, opened,
                   fmeta, fs, bucket, gotWare>>

\* Lines 185-198: the context is found not cancelled, the header is accepted
\* and filtered.
TarAccept_Unchecked ==
    /\ pc = "next"
    /\ \E h \in NextHeaders :
        /\ TarHdrToMetadata(h).err = NilErr
        /\ ~HasDotDotPrefix(TarHdrToMetadata(h).meta.name)
        /\ thdr' = h
        /\ pos' = pos + 1
        /\ fmeta' = Apply(filt, TarHdrToMetadata(h).meta)
    /\ pc' = "place"
    /\ UNCHANGED <<otherVars, mainVars, command, calls, fs0,
                   wareID, warehouses, filt, ctxErr, cancelledAt, idx, reader, opened, closed,
                   fs, bucket, gotWare, result>>

TarAccept ==
    /\ pc = "next"
    /\ \E h \in NextHeaders :
        /\ ~ctxErr
        /\ TarHdrToMetadata(h).err = NilErr
        /\ ~HasDotDotPrefix(TarHdrToMetadata(h).meta.name)
        /\ thdr' = h
        /\ pos' = pos + 1
        /\ fmeta' = Apply(filt, TarHdrToMetadata(h).meta)
    /\ pc' = "place"
    /\ UNCHANGED <<otherVars, mainVars, command, calls, fs0,
                   wareID, warehouses, filt, ctxErr, cancelledAt, idx, reader, opened, closed,
                   fs, bucket, gotWare, result>>

\* Lines 207-220: from the entry's directory upward, conjure each directory
\* LStat reports missing and record it: [err, fs, bucket].
RECURSIVE ConjureParents(_, _, _)
ConjureParents(f, b, parent) ==
    IF parent = RootName THEN [err |-> "nil", fs |-> f, bucket |-> b]
    ELSE IF LStat(f, parent) # "notexist" THEN ConjureParents(f, b, Dir(parent))
    ELSE LET conjuredFmeta == [DefaultDirMetadata EXCEPT !.name = parent]
             placed == PlaceFile(f, conjuredFmeta)
         IN  IF placed.err # "nil" THEN [err |-> placed.err, fs |-> placed.fs, bucket |-> b]
             ELSE ConjureParents(placed.fs, Append(b, Record(conjuredFmeta, NoContent)),
                                 Dir(parent))

\* Lines 200-235 for the entry in fmeta: [err, fs, bucket].
PlaceEntry(f, b, meta) ==
    LET conjured == ConjureParents(f, b, Dir(meta.name))
        placed == PlaceFile(conjured.fs, meta)
    IN  IF conjured.err # "nil" THEN conjured
        ELSE IF placed.err # "nil"
        THEN [err |-> placed.err, fs |-> placed.fs, bucket |-> conjured.bucket]
        ELSE [err |-> "nil", fs |-> placed.fs,
              bucket |-> Append(conjured.bucket,
                                Record(meta, IF meta.type = Type_File THEN ContentHash
                                             ELSE NoContent))]

\* Lines 216-218, 226-228, 231-233: PlaceFile fails.
PlaceFails ==
    /\ pc = "place"
    /\ PlaceEntry(fs, bucket, fmeta).err # "nil"
    /\ fs' = PlaceEntry(fs, bucket, fmeta).fs
    /\ bucket' = PlaceEntry(fs, bucket, fmeta).bucket
    /\ Return(ZeroWareID, Errorf(ErrInoperablePath))
    /\ UNCHANGED <<otherVars, mainVars, command, calls, fs0,
                   wareID, warehouses, filt, ctxErr, cancelledAt, idx, reader, opened,
                   pos, thdr, fmeta, gotWare>>

\* Lines 200-235: parents conjured, the entry placed and recorded.
PlaceOk ==
    /\ pc = "place"
    /\ PlaceEntry(fs, bucket, fmeta).err = "nil"
    /\ fs' = PlaceEntry(fs, bucket, fmeta).fs
    /\ bucket' = PlaceEntry(fs, bucket, fmeta).bucket
    /\ pc' = "next"
    /\ UNCHANGED <<otherVars, mainVars, command, calls, fs0,
                   wareID, warehouses, filt, ctxErr, cancelledAt, idx, reader, opened, closed,
                   pos, thdr, fmeta, gotWare, result>>

-----------------------------------------------------------------------------
(* unpackTar: after the loop, lines 238-257; unpack: lines 132-148 *)

\* The directories of the records at one depth get their mtime again.
RepairLevel_Skip(f, recs, depth) == [err |-> FALSE, fs |-> f]

RECURSIVE RepairLevel(_, _, _)
RepairLevel(f, recs, depth) ==
    IF recs = <<>> THEN [err |-> FALSE, fs |-> f]
    ELSE LET m == Head(recs).Metadata IN
         IF m.type = Type_Dir /\ Len(m.name) = depth
         THEN LET set == SetTimesNano(f, m.name, m.mtime) IN
              IF set.err THEN set ELSE RepairLevel(set.fs, Tail(recs), depth)
         ELSE RepairLevel(f, Tail(recs), depth)

\* treewalk.Walk with a post-visit only: children before their parents.
RECURSIVE RepairTimes(_, _, _)
RepairTimes(f, recs, depth) ==
    LET level == RepairLevel(f, recs, depth) IN
    IF level.err \/ depth = 0 THEN level
    ELSE RepairTimes(level.fs, recs, depth - 1)

Deepest(recs) ==
    CHOOSE d \in 0..Len(recs) + 1 :
        /\ \A i \in DOMAIN recs : Len(recs[i].Metadata.name) <= d
        /\ d = 0 \/ \E i \in DOMAIN recs : Len(recs[i].Metadata.name) = d

\* Lines 249-252: the root record's properties, all of them, are applied to
\* the root of the target.
ApplyRoot_Skip(f, b) == [err |-> "nil", fs |-> f]

ApplyRoot(f, b) == PlaceFile(f, Root(b).Metadata)

\* Lines 202-203 and 240: iterating a bucket with a repeated name blows up.
\* The panic unwinds unpack, whose deferred reader.Close() runs.
RepairPanics ==
    /\ pc = "repair"
    /\ HasDuplicates(bucket)
    /\ pc' = "panicked"
    /\ closed' = closed \cup {reader}
    /\ UNCHANGED <<otherVars, mainVars, command, calls, fs0,
                   wareID, warehouses, filt, ctxErr, cancelledAt, idx, reader, opened,
                   pos, thdr, fmeta, fs, bucket, gotWare, result>>

\* Lines 238-257: directory mtimes are re-paved, the root's properties
\* applied, the bucket hashed.
Finish ==
    /\ pc = "repair"
    /\ ~HasDuplicates(bucket)
    /\ LET repaired == RepairTimes(fs, WithRoot(bucket), Deepest(WithRoot(bucket)))
           rooted == ApplyRoot(repaired.fs, bucket)
       IN  IF repaired.err
           THEN /\ fs' = repaired.fs
                /\ Return(ZeroWareID, Errorf(ErrInoperablePath))
                /\ UNCHANGED gotWare
           ELSE IF rooted.err # "nil"
           THEN /\ fs' = rooted.fs
                /\ Return(ZeroWareID, Errorf(ErrInoperablePath))
                /\ UNCHANGED gotWare
           ELSE /\ fs' = rooted.fs
                /\ gotWare' = ComputedWare(bucket)
                /\ pc' = "verify"
                /\ UNCHANGED <<closed, result>>
    /\ UNCHANGED <<otherVars, mainVars, command, calls, fs0,
                   wareID, warehouses, filt, ctxErr, cancelledAt, idx, reader, opened,
                   pos, thdr, fmeta, bucket>>

\* Line 138.
HashMismatch_Never(got, want) == FALSE

HashMismatch(got, want) == got # want

\* Lines 142-145: the details of the mismatch error.
MismatchDetails_Swapped(want, got) ==
    {<<"expected", WareIDString(got)>>, <<"actual", WareIDString(want)>>}

MismatchDetails(want, got) ==
    {<<"expected", WareIDString(want)>>, <<"actual", WareIDString(got)>>}

\* Lines 138-147: the computed ware id is not the declared one.
VerifyMismatch ==
    /\ pc = "verify"
    /\ HashMismatch(gotWare, wareID)
    /\ Return(gotWare, ErrorDetailed(ErrWareHashMismatch, MismatchDetails(wareID, gotWare)))
    /\ UNCHANGED <<otherVars, mainVars, command, calls, fs0,
                   wareID, warehouses, filt, ctxErr, cancelledAt, idx, reader, opened,
                   pos, thdr, fmeta, fs, bucket, gotWare>>

\* Line 148.
VerifyOk ==
    /\ pc = "verify"
    /\ ~HashMismatch(gotWare, wareID)
    /\ Return(gotWare, NilErr)
    /\ UNCHANGED <<otherVars, mainVars, command, calls, fs0,
                   wareID, warehouses, filt, ctxErr, cancelledAt, idx, reader, opened,
                   pos, thdr, fmeta, fs, bucket, gotWare>>

-----------------------------------------------------------------------------
(* The context *)

Running == pc \notin {"done", "panicked", "tool", "tooldone"}

\* The caller cancels the context while unpack runs.
Cancel ==
    /\ Running
    /\ ~ctxErr
    /\ ctxErr' = TRUE
    /\ cancelledAt' = pc
    /\ UNCHANGED <<otherVars, mainVars, command, calls, fs0,
                   wareID, warehouses, filt, pc, idx, reader, opened, closed,
                   pos, thdr, fmeta, fs, bucket, gotWare, result>>

Next ==
    \/ CliUsage
    \/ CliPackOrScan
    \/ CliUnpack
    \/ ApiUnpack
    \/ UsageAction
    \/ ToolReturns
    \/ MainReturn
    \/ UnpackUsage
    \/ UnpackCached
    \/ SelectMalformed
    \/ SelectUnsupported
    \/ SelectCtrlContinue
    \/ SelectCtrlReturn
    \/ SelectOpenContinue
    \/ SelectOpenReturn
    \/ SelectOpenPass
    \/ SelectNone
    \/ SelectDone
    \/ TarEOF
    \/ TarCorrupt
    \/ TarCancelled
    \/ TarBadHeader
    \/ TarDotDot
    \/ TarAccept
    \/ PlaceFails
    \/ PlaceOk
    \/ RepairPanics
    \/ Finish
    \/ VerifyMismatch
    \/ VerifyOk
    \/ Cancel

Spec == Init /\ [][Next]_vars

TypeOK ==
    /\ SignalIdle
    /\ CacheIdle
    /\ pc \in {"start", "unpack", "tool", "tooldone", "select", "next", "place", "repair",
              "verify", "done", "panicked"}
    /\ PlacerIdle
    /\ command \in Commands
    /\ exitCode \in {NotExited} \cup 0..11
    /\ reader \in 0..Len(warehouses)
    /\ closed \subseteq opened \cup {NoReader}
    /\ idx \in 1..(Len(warehouses) + 1)
    /\ ctxErr <=> cancelledAt # ""
-----------------------------------------------------------------------------
(* CopyPlacer: the machine it runs on *)

\* Everything but the filesystem and CopyPlacer's own state.
unpackVars == <<command, calls, wareID, warehouses, filt, ctxErr, cancelledAt, pc, idx,
                reader, opened, closed, pos, thdr, fmeta, bucket, gotWare, result,
                mainVars, sigVars, cacheVars>>

UnpackIdle ==
    /\ command = "none"
    /\ calls = {}
    /\ wareID = ZeroWareID
    /\ warehouses = <<>>
    /\ filt = [mtime |-> "keep"]
    /\ ctxErr = FALSE
    /\ cancelledAt = ""
    /\ pc = "idle"
    /\ idx = 1
    /\ reader = NoReader
    /\ opened = {}
    /\ closed = {}
    /\ pos = 0
    /\ thdr = NoHdr
    /\ fmeta = NoMeta
    /\ bucket = <<>>
    /\ gotWare = ZeroWareID
    /\ result = NoResult
    /\ parseErr = "nil"
    /\ format = ""
    /\ stdout = <<>>
    /\ stderr = <<>>
    /\ exitCode = NotExited

\* The source (a cache entry) and the destination of the placements considered.
CacheEntry == <<"c">>

Destination == <<"w", "d">>

\* loc is base or lies below it.
Below(base, loc) == Len(loc) >= Len(base) /\ SubSeq(loc, 1, Len(base)) = base

\* The tree at base: relative name -> node.
Tree(f, base) ==
    [name \in {SubSeq(l, Len(base) + 1, Len(l)) : l \in {x \in DOMAIN f : Below(base, x)}}
        |-> f[base \o name]]

\* A filesystem with the tree t put at base.
Graft(f, base, t) ==
    [l \in DOMAIN f \cup {base \o n : n \in DOMAIN t} |->
        IF Below(base, l) /\ SubSeq(l, Len(base) + 1, Len(l)) \in DOMAIN t
        THEN t[SubSeq(l, Len(base) + 1, Len(l))]
        ELSE f[l]]

\* A node of the worlds considered: of the type, with the fixture's mtime and
\* the mode usual for the type.
SourceNode(type, link, content) ==
    Node(type, MtimeFixture, link,
         CASE type = Type_Dir -> PermsDir [] type = Type_File -> PermsFile
              [] OTHER -> PermsLink,
         content)

\* The nodes a source directory may hold besides itself.
OptionalNodes ==
    (<<"f">> :> SourceNode(Type_File, <<>>, "x")) @@
    (<<"l">> :> SourceNode(Type_Symlink, <<"f">>, EmptyBody)) @@
    (<<"s">> :> SourceNode(Type_Dir, <<>>, EmptyBody)) @@
    (<<"s", "g">> :> SourceNode(Type_File, <<>>, "y"))

\* The trees a source may be: a file, a symlink, or a directory holding any
\* of the optional nodes (a node only with its parent).
SourceTrees ==
    {<<>> :> SourceNode(Type_File, <<>>, "x"),
     <<>> :> SourceNode(Type_Symlink, <<"f">>, EmptyBody)} \cup
    {[n \in {<<>>} \cup names |->
         IF n = <<>> THEN SourceNode(Type_Dir, <<>>, EmptyBody) ELSE OptionalNodes[n]] :
        names \in {N \in SUBSET DOMAIN OptionalNodes :
                      \A n \in N : Len(n) > 1 => Dir(n) \in N}}

\* The machines CopyPlacer is called on: "/" and the directory the
\* destination is to appear in; no source or one of the source trees; and at
\* the destination nothing, a file, or a directory with a file.
PlacerWorlds ==
    LET dir == SourceNode(Type_Dir, <<>>, EmptyBody)
        old == SourceNode(Type_File, <<>>, "old")
        base == (<<>> :> dir) @@ (Dir(Destination) :> dir)
        before == {<<>> :> old, (<<>> :> dir) @@ (<<"f">> :> old)}
        withSource == {base} \cup {Graft(base, CacheEntry, t) : t \in SourceTrees}
    IN  withSource \cup {Graft(w, Destination, t) : w \in withSource, t \in before}

PlacerInit ==
    /\ UnpackIdle
    /\ SignalIdle
    /\ CacheIdle
    /\ fs \in PlacerWorlds
    /\ fs0 = fs
    /\ srcPath = CacheEntry
    /\ dstPath = Destination
    /\ ppc = "stat"
    /\ srcStat = Type_Invalid
    /\ parentMtime = ""
    /\ walk = <<>>
    /\ placement = NoPlacement

-----------------------------------------------------------------------------
(* CopyPlacer: the operations it calls *)

\* os.RemoveAll: the node and all below it go; the directory that held the
\* node changes.  Removing what does not exist does nothing.
RemoveAll(f, loc) ==
    IF loc \notin DOMAIN f THEN f
    ELSE [l \in {x \in DOMAIN f : ~Below(loc, x)} |->
            IF l = Dir(loc) THEN [f[l] EXCEPT !.mtime = MtimeNow] ELSE f[l]]

\* fsOp.ScanFile: the metadata of the node at a name of the filesystem rooted
\* at base, and its body.
ScanFile(base, f, name) ==
    LET n == f[base \o name] IN
    [meta |-> [name |-> name, type |-> n.type, mtime |-> n.mtime, link |-> n.link,
               perms |-> n.perms],
     body |-> n.content]

\* ReadDirNames answers in this order.
NameOrder == <<"f", "g", "l", "s">>

\* fs.Walk: the visits, each node before its children and once more after them.
RECURSIVE Visits(_, _, _)
RECURSIVE VisitChildren(_, _, _, _)
Visits(f, base, name) ==
    <<[visit |-> "pre", name |-> name]>>
    \o (IF f[base \o name].type = Type_Dir THEN VisitChildren(f, base, name, 1) ELSE <<>>)
    \o <<[visit |-> "post", name |-> name]>>

VisitChildren(f, base, name, k) ==
    IF k > Len(NameOrder) THEN <<>>
    ELSE (IF base \o name \o <<NameOrder[k]>> \in DOMAIN f
          THEN Visits(f, base, Append(name, NameOrder[k]))
          ELSE <<>>)
         \o VisitChildren(f, base, name, k + 1)

-----------------------------------------------------------------------------
(* CopyPlacer, copyPlacer.go lines 23-97 *)

\* Line 37: the repair fsOp.RepairMtime deferred puts the captured mtime back
\* on the directory that holds the destination.
Deferred_None(f) == f

Deferred(f) == [f EXCEPT ![Dir(dstPath)].mtime = parentMtime]

\* A return of CopyPlacer.
PlacerReturn(cleanup, err) ==
    /\ ppc' = "returned"
    /\ placement' = [cleanup |-> cleanup, err |-> err, cleanupErr |-> NilErr]
    /\ UNCHANGED <<unpackVars, fs0, srcPath, dstPath, srcStat, parentMtime, walk>>

\* Lines 25-28: rootFs.LStat of the source fails.
CpStatFails ==
    /\ ppc = "stat"
    /\ LStatAt(<<>>, fs, srcPath) # "nil"
    /\ PlacerReturn("nil", Errorf(ErrLocalCacheProblem))
    /\ UNCHANGED fs

\* Lines 29-34: the source is neither a file nor a directory.
CpBadType ==
    /\ ppc = "stat"
    /\ LStatAt(<<>>, fs, srcPath) = "nil"
    /\ fs[srcPath].type \notin {Type_File, Type_Dir}
    /\ PlacerReturn("nil", Errorf(ErrAssemblyInvalid))
    /\ UNCHANGED fs

\* Lines 29-37: the type passes; the parent's mtime is captured.
CpCapture ==
    /\ ppc = "stat"
    /\ LStatAt(<<>>, fs, srcPath) = "nil"
    /\ fs[srcPath].type \in {Type_File, Type_Dir}
    /\ srcStat' = fs[srcPath].type
    /\ parentMtime' = fs[Dir(dstPath)].mtime
    /\ ppc' = "clear"
    /\ UNCHANGED <<unpackVars, fs, fs0, srcPath, dstPath, walk, placement>>

\* Lines 41-43: os.RemoveAll fails, having removed nothing.
CpClearFails ==
    /\ ppc = "clear"
    /\ dstPath \in DOMAIN fs
    /\ fs' = Deferred(fs)
    /\ PlacerReturn("nil", Errorf(ErrAssemblyInvalid))

\* Line 41, and line 86 as far as the listing of the source goes.
CpClear_Keep ==
    /\ ppc = "clear"
    /\ fs' = fs
    /\ ppc' = IF srcStat = Type_File THEN "file" ELSE "walk"
    /\ walk' = IF srcStat = Type_File THEN <<>> ELSE Visits(fs, srcPath, <<>>)
    /\ UNCHANGED <<unpackVars, fs0, srcPath, dstPath, srcStat, parentMtime, placement>>

CpClear ==
    /\ ppc = "clear"
    /\ fs' = RemoveAll(fs, dstPath)
    /\ ppc' = IF srcStat = Type_File THEN "file" ELSE "walk"
    /\ walk' = IF srcStat = Type_File THEN <<>> ELSE Visits(fs, srcPath, <<>>)
    /\ UNCHANGED <<unpackVars, fs0, srcPath, dstPath, srcStat, parentMtime, placement>>

\* Lines 48-51: fsOp.ScanFile of the source file fails.
CpFileScanFails ==
    /\ ppc = "file"
    /\ fs' = Deferred(fs)
    /\ PlacerReturn("nil", Errorf(ErrLocalCacheProblem))

\* Lines 48-60: the file is placed at the destination.
CpFilePlace ==
    /\ ppc = "file"
    /\ LET scanned == ScanFile(<<>>, fs, srcPath)
           placed == PlaceFileAt(<<>>, fs, [scanned.meta EXCEPT !.name = dstPath],
                                 scanned.body)
       IN  /\ fs' = Deferred(placed.fs)
           /\ PlacerReturn("os.Remove",
                           IF placed.err = "nil" THEN NilErr ELSE Errorf(Uncategorized))

\* Lines 54-59: fsOp.PlaceFile fails (the disk is full, say), having written
\* nothing; the cleanup func is returned with its error.
CpFilePlaceFails ==
    /\ ppc = "file"
    /\ fs' = Deferred(fs)
    /\ PlacerReturn("os.Remove", Errorf(Uncategorized))

\* Lines 66-72 with 86-88: the node cannot be read; the walk's error is returned.
CpVisitFails ==
    /\ ppc = "walk"
    /\ walk # <<>>
    /\ Head(walk).visit = "pre"
    /\ fs' = Deferred(fs)
    /\ PlacerReturn("nil", Errorf(Uncategorized))

\* Lines 65-77: the node is scanned in the source and placed in the destination.
CpPreVisit ==
    /\ ppc = "walk"
    /\ walk # <<>>
    /\ Head(walk).visit = "pre"
    /\ LET scanned == ScanFile(srcPath, fs, Head(walk).name)
           placed == PlaceFileAt(dstPath, fs, scanned.meta, scanned.body)
       IN  IF placed.err # "nil"
           THEN /\ fs' = Deferred(placed.fs)
                /\ PlacerReturn("nil", Errorf(Uncategorized))
           ELSE /\ fs' = placed.fs
                /\ walk' = Tail(walk)
                /\ UNCHANGED <<unpackVars, fs0, srcPath, dstPath, ppc, srcStat,
                               parentMtime, placement>>

\* Lines 78-85: a directory gets the source directory's mtime again.
PostVisit_Skip(f, name, info) == [err |-> FALSE, fs |-> f]

PostVisit(f, name, info) ==
    IF info.type = Type_Dir THEN SetTimesNanoAt(dstPath, f, name, info.mtime)
    ELSE [err |-> FALSE, fs |-> f]

CpPostVisit ==
    /\ ppc = "walk"
    /\ walk # <<>>
    /\ Head(walk).visit = "post"
    /\ LET visited == PostVisit(fs, Head(walk).name, fs[srcPath \o Head(walk).name])
       IN  IF visited.err
           THEN /\ fs' = Deferred(visited.fs)
                /\ PlacerReturn("nil", Errorf(Uncategorized))
           ELSE /\ fs' = visited.fs
                /\ walk' = Tail(walk)
                /\ UNCHANGED <<unpackVars, fs0, srcPath, dstPath, ppc, srcStat,
                               parentMtime, placement>>

\* Lines 86-96: the walk is over.
CpWalkDone ==
    /\ ppc = "walk"
    /\ walk = <<>>
    /\ fs' = Deferred(fs)
    /\ PlacerReturn("os.RemoveAll", NilErr)

\* Lines 55 and 92: what the cleanup func removes.
Teardown_Nothing(f, how) == f

Teardown(f, how) == RemoveAll(f, dstPath)

\* Lines 54-60 and 91-96: the caller invokes the cleanup func of a placement
\* that succeeded.
CpCleanup ==
    /\ ppc = "returned"
    /\ placement.cleanup # "nil"
    /\ placement.err = NilErr
    /\ fs' = Teardown(fs, placement.cleanup)
    /\ ppc' = "cleaned"
    /\ UNCHANGED <<unpackVars, fs0, srcPath, dstPath, srcStat, parentMtime, walk,
                   placement>>

\* Lines 55-57 and 92-94: the removal fails.
CpCleanupFails ==
    /\ ppc = "returned"
    /\ placement.cleanup # "nil"
    /\ placement.err = NilErr
    /\ ppc' = "cleaned"
    /\ placement' = [placement EXCEPT !.cleanupErr = Errorf(ErrLocalCacheProblem)]
    /\ UNCHANGED <<unpackVars, fs, fs0, srcPath, dstPath, srcStat, parentMtime, walk>>

PlacerNext ==
    \/ CpStatFails
    \/ CpBadType
    \/ CpCapture
    \/ CpClearFails
    \/ CpClear
    \/ CpFileScanFails
    \/ CpFilePlace
    \/ CpFilePlaceFails
    \/ CpVisitFails
    \/ CpPreVisit
    \/ CpPostVisit
    \/ CpWalkDone
    \/ CpCleanup
    \/ CpCleanupFails

PlacerSpec == PlacerInit /\ [][PlacerNext]_vars

PlacerTypeOK ==
    /\ ppc \in {"stat", "clear", "file", "walk", "returned", "cleaned"}
    /\ UnpackIdle
    /\ srcPath \in DOMAIN fs0 => Tree(fs, srcPath) = Tree(fs0, srcPath)

-----------------------------------------------------------------------------
(* main and CancelOnInterrupt, part_001 lines 19-34 *)

\* What a SIGINT does is os/signal's: with no channel registered the process
\* is terminated; to a registered channel the signal is sent without
\* blocking, so it is received only by a goroutine waiting in the receive and
\* is dropped otherwise; a send on a closed channel panics.

\* Everything but the context, Main's result and the goroutine's own state.
sansSignal == <<command, calls, fs0, wareID, warehouses, filt, cancelledAt, pc, idx, reader,
                opened, closed, pos, thdr, fmeta, fs, bucket, gotWare, mainVars,
                placerVars, cacheVars>>

\* Lines 20-23: the context is made, the goroutine spawned, Main called.
SignalInit ==
    /\ UnpackIdle
    /\ PlacerIdle
    /\ CacheIdle
    /\ fs = InitFS
    /\ fs0 = fs
    /\ sigpc = "spawned"
    /\ sigints = <<>>
    /\ proc = "running"

\* Line 29: the channel is made, without a buffer.
SigMake ==
    /\ proc \in {"running", "returned"}
    /\ sigpc = "spawned"
    /\ sigpc' = "made"
    /\ UNCHANGED <<sansSignal, result, ctxErr, sigints, proc>>

\* Line 30.
SigNotify ==
    /\ proc \in {"running", "returned"}
    /\ sigpc = "made"
    /\ sigpc' = "notified"
    /\ UNCHANGED <<sansSignal, result, ctxErr, sigints, proc>>

\* Line 31: the goroutine blocks in the receive.
SigWait ==
    /\ proc \in {"running", "returned"}
    /\ sigpc = "notified"
    /\ sigpc' = "waiting"
    /\ UNCHANGED <<sansSignal, result, ctxErr, sigints, proc>>

\* Line 32, after the receive of line 31 was served.
SigCancel ==
    /\ proc \in {"running", "returned"}
    /\ sigpc = "received"
    /\ sigpc' = "cancelled"
    /\ ctxErr' = TRUE
    /\ UNCHANGED <<sansSignal, result, sigints, proc>>

\* Line 33; the goroutine returns, the channel stays registered.
SigClose ==
    /\ proc \in {"running", "returned"}
    /\ sigpc = "cancelled"
    /\ sigpc' = "closed"
    /\ UNCHANGED <<sansSignal, result, ctxErr, sigints, proc>>

\* What becomes of a SIGINT delivered now.
Delivery(at) ==
    CASE at \in {"spawned", "made"} -> "default"
      [] at = "waiting" -> "received"
      [] at = "closed" -> "panic"
      [] OTHER -> "dropped"

\* The terminal sends a SIGINT.
Sigint ==
    /\ proc \in {"running", "returned"}
    /\ Len(sigints) < MaxSigints
    /\ sigints' = Append(sigints, Delivery(sigpc))
    /\ sigpc' = IF Delivery(sigpc) = "received" THEN "received" ELSE sigpc
    /\ proc' = CASE Delivery(sigpc) = "default" -> "killed"
                 [] Delivery(sigpc) = "panic" -> "panicked"
                 [] OTHER -> proc
    /\ UNCHANGED <<sansSignal, result, ctxErr>>

\* Line 23: Main returns; only with the context cancelled can its error be
\* ErrCancelled.
MainReturns ==
    /\ proc = "running"
    /\ proc' = "returned"
    /\ result' \in {[ware |-> w, err |-> NilErr] : w \in DeclaredWares}
                   \cup (IF ctxErr THEN {[ware |-> ZeroWareID, err |-> Errorf(ErrCancelled)]}
                         ELSE {})
    /\ UNCHANGED <<sansSignal, ctxErr, sigpc, sigints>>

\* Line 24: os.Exit.
MainExits ==
    /\ proc = "returned"
    /\ proc' = "exited"
    /\ UNCHANGED <<sansSignal, result, ctxErr, sigpc, sigints>>

SignalNext ==
    \/ SigMake
    \/ SigNotify
    \/ SigWait
    \/ SigCancel
    \/ SigClose
    \/ Sigint
    \/ MainReturns
    \/ MainExits

\* A goroutine that can run does run, and os.Exit follows Main's return; how
\* long Main runs is open.
SignalSpec ==
    /\ SignalInit
    /\ [][SignalNext]_vars
    /\ WF_vars(SigMake \/ SigNotify \/ SigWait \/ SigCancel \/ SigClose)
    /\ WF_vars(MainExits)

-----------------------------------------------------------------------------
(* cache.Lrn2Cache, called at tar_unpack.go lines 59-63 *)

\* The wrapper is the one the cache's contract describes: a committed
\* directory per ware that is read without a lock, a staging directory per
\* build, a lock file per ware around the build, a rename from staging to
\* committed after a build that returned no error, the staging directory
\* destroyed after one that returned an error.

Callers == 1..MaxCallers

NoCaller == 0

Absent == "absent"

\* The fileset whose hash is the ware id the callers ask for.
Fileset == "fileset"

\* What the inner function returns when it fails, and what it has left in
\* the staging directory by then.
BuildFailures ==
    {[err |-> Errorf(ErrWareHashMismatch), left |-> "another fileset"],
     [err |-> Errorf(ErrWarehouseUnavailable), left |-> "empty"],
     [err |-> Errorf(ErrCancelled), left |-> "partial"]}

NoOutcome == [via |-> "none", tree |-> Absent, err |-> NilErr]

\* Everything but the cache and its callers.
sansCache == <<command, calls, fs0, wareID, warehouses, filt, ctxErr, cancelledAt, pc, idx,
               reader, opened, closed, pos, thdr, fmeta, fs, bucket, gotWare, result,
               mainVars, placerVars, sigVars>>

\* The callers enter together; the ware may be in the cache already.
CacheInit ==
    /\ UnpackIdle
    /\ PlacerIdle
    /\ SignalIdle
    /\ fs = InitFS
    /\ fs0 = fs
    /\ cpc = [c \in Callers |-> "entry"]
    /\ lock = NoCaller
    /\ committed \in {Absent, Fileset}
    /\ staging = [c \in Callers |-> Absent]
    /\ inner = <<>>
    /\ outcome = [c \in Callers |-> NoOutcome]

\* On entry: a committed directory means no build.
CacheCheck(c) ==
    /\ cpc[c] = "entry"
    /\ IF committed # Absent
       THEN /\ cpc' = [cpc EXCEPT ![c] = "place"]
            /\ outcome' = [outcome EXCEPT ![c].via = "hit"]
       ELSE /\ cpc' = [cpc EXCEPT ![c] = "lock"]
            /\ outcome' = outcome
    /\ UNCHANGED <<sansCache, lock, committed, staging, inner>>

\* flock on the ware's lock file: waits while another caller holds it.
CacheLock(c) ==
    /\ cpc[c] = "lock"
    /\ lock = NoCaller
    /\ lock' = c
    /\ cpc' = [cpc EXCEPT ![c] = "locked"]
    /\ UNCHANGED <<sansCache, committed, staging, inner, outcome>>

\* With the lock: always builds, whatever was committed meanwhile.
CacheLocked_Blind(c) ==
    /\ cpc[c] = "locked"
    /\ staging' = [staging EXCEPT ![c] = "empty"]
    /\ cpc' = [cpc EXCEPT ![c] = "build"]
    /\ UNCHANGED <<lock, outcome>>
    /\ UNCHANGED <<sansCache, committed, inner>>

\* With the lock: the loser observes the committed result; on a miss a
\* staging directory is allocated.
CacheLocked(c) ==
    /\ cpc[c] = "locked"
    /\ IF committed # Absent
       THEN /\ lock' = NoCaller
            /\ cpc' = [cpc EXCEPT ![c] = "place"]
            /\ outcome' = [outcome EXCEPT ![c].via = "waited"]
            /\ staging' = staging
       ELSE /\ staging' = [staging EXCEPT ![c] = "empty"]
            /\ cpc' = [cpc EXCEPT ![c] = "build"]
            /\ UNCHANGED <<lock, outcome>>
    /\ UNCHANGED <<sansCache, committed, inner>>

\* The inner function returns no error: staging holds the ware's fileset.
CacheBuilt(c) ==
    /\ cpc[c] = "build"
    /\ inner' = Append(inner, [caller |-> c, err |-> NilErr])
    /\ staging' = [staging EXCEPT ![c] = Fileset]
    /\ cpc' = [cpc EXCEPT ![c] = "commit"]
    /\ UNCHANGED <<sansCache, lock, committed, outcome>>

\* The inner function returns an error.
CacheBuildFails(c) ==
    /\ cpc[c] = "build"
    /\ \E f \in BuildFailures :
          /\ inner' = Append(inner, [caller |-> c, err |-> f.err])
          /\ staging' = [staging EXCEPT ![c] = f.left]
          /\ outcome' = [outcome EXCEPT ![c].err = f.err]
    /\ cpc' = [cpc EXCEPT ![c] = "failed"]
    /\ UNCHANGED <<sansCache, lock, committed>>

\* On failure mid-build, staging is destroyed; the error is returned.
CacheDiscard(c) ==
    /\ cpc[c] = "failed"
    /\ staging' = [staging EXCEPT ![c] = Absent]
    /\ lock' = NoCaller
    /\ cpc' = [cpc EXCEPT ![c] = "done"]
    /\ UNCHANGED <<sansCache, committed, inner, outcome>>

\* On success staging is renamed to committed.
CacheCommit(c) ==
    /\ cpc[c] = "commit"
    /\ committed' = staging[c]
    /\ staging' = [staging EXCEPT ![c] = Absent]
    /\ lock' = NoCaller
    /\ outcome' = [outcome EXCEPT ![c].via = "built"]
    /\ cpc' = [cpc EXCEPT ![c] = "place"]
    /\ UNCHANGED <<sansCache, inner>>

\* Placement: the caller's target gets what is committed.
CachePlace(c) ==
    /\ cpc[c] = "place"
    /\ outcome' = [outcome EXCEPT ![c].tree = committed]
    /\ cpc' = [cpc EXCEPT ![c] = "done"]
    /\ UNCHANGED <<sansCache, lock, committed, staging, inner>>

CacheNext ==
    \/ \E c \in Callers : CacheCheck(c)
    \/ \E c \in Callers : CacheLock(c)
    \/ \E c \in Callers : CacheLocked(c)
    \/ \E c \in Callers : CacheBuilt(c)
    \/ \E c \in Callers : CacheBuildFails(c)
    \/ \E c \in Callers : CacheDiscard(c)
    \/ \E c \in Callers : CacheCommit(c)
    \/ \E c \in Callers : CachePlace(c)

CacheSpec == CacheInit /\ [][CacheNext]_vars

CacheTypeOK ==
    /\ cpc \in [Callers -> {"entry", "lock", "locked", "build", "failed", "commit",
                            "place", "done"}]
    /\ lock \in Callers \cup {NoCaller}
    /\ Len(inner) <= MaxCallers
    /\ UnpackIdle
    /\ PlacerIdle
    /\ SignalIdle

-----------------------------------------------------------------------------
(* Vocabulary of the properties *)

Parsed(a) == a.uri = "ok" /\ a.scheme \in {"file", "ca+file", "http", "ca+http", "https", "ca+https"}

\* Controller construction fails with ErrWarehouseUnavailable.
IsUnavailable(a) == Parsed(a) /\ a.ctrl = ErrWarehouseUnavailable

\* The store is reachable and OpenReader fails with ErrWareNotFound.
IsNotFound(a) == Parsed(a) /\ a.ctrl = NilCategory /\ a.open = ErrWareNotFound

\* OpenReader succeeds.
IsServing(a) == Parsed(a) /\ a.ctrl = NilCategory /\ a.open = NilCategory

\* The category of the failure that is neither of the two absorbed ones, or nil.
HardFailure(a) ==
    IF a.uri # "ok" THEN ErrUsage
    ELSE IF ~Parsed(a) THEN ErrUsage
    ELSE IF a.ctrl \notin {NilCategory, ErrWarehouseUnavailable} THEN a.ctrl
    ELSE IF a.ctrl = NilCategory /\ a.open \notin {NilCategory, ErrWareNotFound} THEN a.open
    ELSE NilCategory

\* The categories only warehouse selection returns.
SelectionCategories == {ErrUsage, ErrWarehouseUnavailable, ErrWareNotFound}

\* The first warehouse, in declared order, whose OpenReader succeeds (0: none).
FirstServing(L) ==
    IF \E i \in DOMAIN L : IsServing(L[i])
    THEN CHOOSE i \in DOMAIN L : IsServing(L[i]) /\ \A j \in 1..(i - 1) : ~IsServing(L[j])
    ELSE 0

\* The header's normalized name begins with "..".
LeavesBase(hdr) ==
    LET n == MustRelPath(hdr.name) IN hdr # NoHdr /\ Len(n) > 0 /\ n[1] = ".."

\* unpack, the function behind the cache wrapper, has been entered.
Entered == "unpack" \in calls

\* The pipeline took a step (the context being cancelled is not one).
Stepped == <<pc, idx, reader, opened, pos>>' # <<pc, idx, reader, opened, pos>>

-----------------------------------------------------------------------------
(* C1 *)

IsFailoverList(L) ==
    /\ Len(L) = 3
    /\ IsUnavailable(L[1])
    /\ IsNotFound(L[2])
    /\ IsServing(L[3])

\* C1: with the warehouses [A(unavailable), B(not-found), C(ok)], A and B are
\* skipped and unpack goes on from C exactly as it does for the list [C] alone:
\* selection touches nothing and returns no error, extraction starts from the
\* same state (the untouched target, an empty bucket) reading C's blob through
\* the only reader opened, and that reader is the one closed at return.
C1_FailoverMatchesSingle ==
    \A c \in WarehouseKinds :
        (/\ Entered
         /\ IsServing(c)
         /\ warehouses = <<c>> \/ (IsFailoverList(warehouses) /\ warehouses[3] = c))
        =>
        /\ pc = "select" => (fs = fs0 /\ bucket = <<>> /\ result = NoResult)
        /\ pc # "select" =>
              /\ reader = Len(warehouses)
              /\ opened = {reader}
              /\ warehouses[reader].blob = c.blob
        /\ (pc = "next" /\ pos = 0) =>
              (fs = fs0 /\ bucket = <<>> /\ closed = {} /\ result = NoResult)
        /\ pc = "done" =>
              (closed = {reader} /\ Category(result.err) \notin SelectionCategories)

C1_Witness ==
    /\ IsFailoverList(warehouses)
    /\ pc = "done"
    /\ result.err = NilErr
    /\ result.ware = wareID

-----------------------------------------------------------------------------
(* C2 *)

\* C2: unpack reads from the first warehouse whose OpenReader succeeds; the
\* warehouses listed after it are not looked at, so they neither replace the
\* reader nor turn the success into a selection failure.
C2_FirstSuccessWins ==
    LET first == FirstServing(warehouses) IN
    (first # 0 /\ idx > first) =>
        /\ idx = first + 1
        /\ reader = first
        /\ opened = {first}
        /\ pc = "done" => Category(result.err) \notin SelectionCategories

-----------------------------------------------------------------------------
(* C3 *)

AllExhausted(L) == \A i \in DOMAIN L : IsUnavailable(L[i]) \/ IsNotFound(L[i])

\* C3: if every declared warehouse is unavailable or lacks the ware (the empty
\* list included), unpack never starts extracting, fails with
\* ErrWarehouseUnavailable, and has written nothing to the target.
C3_ExhaustedFails ==
    (Entered /\ AllExhausted(warehouses)) =>
        /\ pc \in {"select", "done"}
        /\ fs = fs0
        /\ pc = "done" =>
              /\ Category(result.err) = ErrWarehouseUnavailable
              /\ result.ware = ZeroWareID

C3_Witness ==
    /\ Len(warehouses) = 2
    /\ IsUnavailable(warehouses[1])
    /\ IsNotFound(warehouses[2])
    /\ pc = "done"

-----------------------------------------------------------------------------
(* C4 *)

\* C4: when the warehouse looked at fails in any way but the two absorbed ones
\* (unparseable URI, unsupported scheme, another category from NewController
\* or from OpenReader), the step that looks at it returns that error at once:
\* no later warehouse is tried, nothing is placed, and unpack stays returned.
C4_HardFailureReturns ==
    [][ /\ (InLoop /\ HardFailure(warehouses[idx]) # NilCategory /\ Stepped) =>
              /\ pc' = "done"
              /\ idx' = idx
              /\ result' = [ware |-> ZeroWareID, err |-> Errorf(HardFailure(warehouses[idx]))]
              /\ opened' = opened
              /\ fs' = fs0
              /\ bucket' = <<>>
        /\ pc = "done" => UNCHANGED <<pc, idx, opened, fs, bucket, result>>
      ]_vars

C4_Witness ==
    /\ pc = "done"
    /\ idx = 2
    /\ Len(warehouses) = 3
    /\ HardFailure(warehouses[2]) # NilCategory
    /\ IsServing(warehouses[3])
    /\ Category(result.err) = HardFailure(warehouses[2])

-----------------------------------------------------------------------------
(* C5 *)

\* C5: whenever unpack has returned a nil error, the ware id recomputed from
\* the bucket of placed entries is the declared one, and is the value returned.
C5_SuccessMeansHashMatches ==
    (pc = "done" /\ result.err = NilErr) =>
        /\ ComputedWare(bucket) = wareID
        /\ result.ware = wareID

C5_Witness ==
    /\ pc = "done"
    /\ result.err = NilErr
    /\ Len(bucket) > 0

-----------------------------------------------------------------------------
(* C6 *)

\* C6: when unpackTar extracted the whole stream without error and the ware id
\* it computed is not the declared one, unpack returns the computed id with an
\* ErrWareHashMismatch error whose details are "expected" = the declared id and
\* "actual" = the computed id.
C6_MismatchReported ==
    (pc = "done" /\ gotWare # ZeroWareID /\ ComputedWare(bucket) # wareID) =>
        /\ result.ware = ComputedWare(bucket)
        /\ Category(result.err) = ErrWareHashMismatch
        /\ result.err.details = {<<"expected", WareIDString(wareID)>>,
                                 <<"actual", WareIDString(ComputedWare(bucket))>>}

C6_Witness ==
    /\ pc = "done"
    /\ gotWare # ZeroWareID
    /\ ComputedWare(bucket) # wareID
    /\ Category(result.err) = ErrWareHashMismatch

-----------------------------------------------------------------------------
(* C7 *)

\* C7: whatever the tar stream holds (symlinks leaving the root and entries
\* below them, names with ".." components, hardlinks to outside files), no
\* node outside the target directory is ever created or changed.
C7_NoBreakout == Outside(fs) = Outside(fs0)

\* A symlink to the outside directory was placed and an entry below it refused.
C7_Witness ==
    /\ pc = "done"
    /\ <<"t", "a">> \in DOMAIN fs
    /\ fs[<<"t", "a">>].type = Type_Symlink
    /\ fs[<<"t", "a">>].link = <<"o">>
    /\ thdr.name = <<"a", "b">>
    /\ Category(result.err) = ErrInoperablePath

-----------------------------------------------------------------------------
(* C8 *)

\* What reading a header whose normalized name begins with ".." must do, given
\* the category it returns: return at once, before any parent is conjured or
\* anything placed or recorded for it; and nothing is placed after the return.
DotDotRejected(cat) ==
    /\ (pc = "next" /\ pos' = pos + 1 /\ LeavesBase(thdr')) =>
          /\ pc' = "done"
          /\ Category(result'.err) = cat
          /\ result'.ware = ZeroWareID
          /\ fs' = fs
          /\ bucket' = bucket
    /\ pc = "done" => UNCHANGED <<pc, fs, bucket, result>>

\* C8 as stated: an entry whose normalized name begins with ".." makes
\* unpackTar return ErrWareCorrupt before anything is conjured or placed for it,
\* and no later entry is placed.
C8_DotDotIsCorrupt == [][DotDotRejected(ErrWareCorrupt)]_vars

\* C8 as amended: the category is ErrCancelled if the context was cancelled by
\* the time the header was read, and ErrWareCorrupt otherwise.
C8_DotDotIsRejected ==
    [][DotDotRejected(IF ctxErr THEN ErrCancelled ELSE ErrWareCorrupt)]_vars

\* An entry was placed, then a header leaving the base dir was refused.
C8_Witness ==
    /\ pc = "done"
    /\ LeavesBase(thdr)
    /\ Category(result.err) = ErrWareCorrupt
    /\ Len(bucket) > 0
    /\ pos > 1

-----------------------------------------------------------------------------
(* C9 *)

\* C9: if the context was cancelled during warehouse selection, while an entry
\* was being placed, or during the directory-mtime post-pass, unpack does not
\* return a successful ware id.  The claim names ErrCancelled as the category
\* returned; this is its weakest reading, which any error at all would satisfy.
C9_CancelledNeverSucceeds ==
    (pc = "done" /\ cancelledAt \in {"select", "place", "repair"})
        => Category(result.err) # NilCategory

-----------------------------------------------------------------------------
(* C10 *)

\* C10: no reader is overwritten without being closed, and every reader
\* OpenReader returned is closed by the time unpack returns.
C10_ReadersClosed ==
    /\ \A h \in opened : h = reader \/ h \in closed
    /\ pc = "done" => opened \subseteq closed

-----------------------------------------------------------------------------
(* C11 *)

\* The bucket as it is hashed holds a directory record for the parent of each
\* of its records but the root's.
ParentsRecorded(b) ==
    \A i \in DOMAIN b :
        b[i].Metadata.name # RootName =>
            \E j \in DOMAIN WithRoot(b) :
                /\ WithRoot(b)[j].Metadata.name = Dir(b[i].Metadata.name)
                /\ WithRoot(b)[j].Metadata.type = Type_Dir

\* C11: when unpackTar has computed the fileset hash, every record of the
\* bucket but the root's has a record for its parent directory, whatever the
\* order of the entries and whatever the target directory held beforehand.
C11_ParentsRecorded == pc = "verify" => ParentsRecorded(bucket)

\* The same, for a target directory that was empty when unpack started.
C11_OnEmptyTarget == (pc = "verify" /\ fs0 = InitFS) => ParentsRecorded(bucket)

-----------------------------------------------------------------------------
(* C12 *)

\* The mtime a defaulted directory has once the active filters are applied.
FilteredDefaultMtime == IF filt.mtime = "keep" THEN MtimeDefault ELSE filt.mtime

\* The records the step added for implicit parents: all it added but the
\* entry's own.
ConjuredInStep ==
    {i \in (Len(bucket) + 1)..Len(bucket') : bucket'[i].Metadata.name # fmeta.name}

\* C12: an implicit parent directory conjured while an entry is placed is a
\* directory of mode 0755 whose mtime is the one the filters force (the
\* default when they keep it), in its bucket record and on disk.
C12_ConjuredDirsFiltered ==
    [][ pc = "place" =>
          \A i \in ConjuredInStep :
              LET m == bucket'[i].Metadata IN
              /\ m.type = Type_Dir
              /\ m.perms = PermsDir
              /\ m.mtime = FilteredDefaultMtime
              /\ fs'[Resolve(fs', m.name)].perms = PermsDir
      ]_vars

-----------------------------------------------------------------------------
(* C13 *)

\* C13: once unpackTar has succeeded, every directory the bucket records (the
\* root, conjured or not, included) has on disk the mtime of its record,
\* although placing children into it moved that mtime.
C13_DirMtimesRepaired ==
    pc = "verify" =>
        \A i \in DOMAIN WithRoot(bucket) :
            LET m == WithRoot(bucket)[i].Metadata IN
            m.type = Type_Dir =>
                /\ Resolve(fs, m.name) \in DOMAIN fs
                /\ fs[Resolve(fs, m.name)].mtime = m.mtime

\* A recorded directory other than the root had a child placed into it.
C13_Witness ==
    /\ pc = "verify"
    /\ \E i, j \in DOMAIN bucket :
          /\ bucket[i].Metadata.type = Type_Dir
          /\ bucket[i].Metadata.name # RootName
          /\ Dir(bucket[j].Metadata.name) = bucket[i].Metadata.name
          /\ i < j

-----------------------------------------------------------------------------
(* C14 *)

\* The call of TestTarFixtureUnpack for the fixture that lacks a base dir:
\* its ware id declared, nothing filtered, one warehouse, an empty target.
SansBaseCall ==
    /\ Entered
    /\ warehouses = <<Serving("https", "tar_sansBase")>>
    /\ wareID = ComputedWare(FixtureRecords(Fixture("tar_sansBase")))
    /\ filt.mtime = "keep"
    /\ fs0 = InitFS

\* C14: a stream without an entry for the root unpacks all the same.  The
\* ware id computed covers a root record of default directory metadata, and
\* the root of the target has that record's properties (type, mode, mtime)
\* once the entries are placed; the fixture without a base dir, if not
\* cancelled, ends in success with its declared ware id.
C14_RootConjured ==
    /\ (pc \in {"verify", "done"} /\ gotWare # ZeroWareID /\ ~HasRoot(bucket)) =>
          /\ gotWare = ComputedWare(bucket)
          /\ Record(DefaultDirMetadata, NoContent) \in gotWare.hash[2]
          /\ fs[TargetPath].type = Type_Dir
          /\ fs[TargetPath].perms = DefaultDirMetadata.perms
          /\ fs[TargetPath].mtime = DefaultDirMetadata.mtime
    /\ (SansBaseCall /\ pc = "done" /\ ~ctxErr) => result = [ware |-> wareID, err |-> NilErr]

\* The fixture without a base dir was unpacked with success.
C14_Witness ==
    /\ SansBaseCall
    /\ pc = "done"
    /\ result.err = NilErr
    /\ ~HasRoot(bucket)
    /\ Len(bucket) = Len(Fixture("tar_sansBase"))

-----------------------------------------------------------------------------
(* C15 *)

\* A name was placed and recorded twice: as two entries of the stream, or as a
\* conjured parent and a later entry.
RepeatsName(b) ==
    \E i \in DOMAIN b : \E j \in DOMAIN b \ {i} : b[i].Metadata.name = b[j].Metadata.name

-----------------------------------------------------------------------------
(* C16 *)

\* C16: with a pack type other than "tar" the call ends in ErrUsage and a zero
\* ware id, and that is all it does: the cache wrapper and unpack are never
\* entered, no warehouse is looked at, the filesystem is as it was; and a rio
\* subcommand ends so without having invoked any transmat function.
C16_ForeignPackTypeIsUsage ==
    wareID.type # "tar" =>
        /\ pc \in {"start", "unpack", "done"}
        /\ pc = "done" => result = [ware |-> ZeroWareID, err |-> Errorf(ErrUsage)]
        /\ calls \subseteq {"tartrans.Unpack"}
        /\ command \in {"pack", "unpack", "scan"} => calls = {}
        /\ idx = 1 /\ reader = NoReader /\ opened = {}
        /\ fs = fs0
        /\ bucket = <<>>

\* tartrans.Unpack, called directly, refused the pack type.
C16_Witness ==
    /\ wareID.type = "git"
    /\ command = "api"
    /\ calls = {"tartrans.Unpack"}
    /\ pc = "done"
    /\ Category(result.err) = ErrUsage

-----------------------------------------------------------------------------
(* C17 *)

\* CopyPlacer got past line 37: the parent's mtime is captured.
Captured == srcStat # Type_Invalid

\* C17: the mtime CopyPlacer captures is the one the destination's parent had
\* before anything was removed or written at the destination, and whenever
\* CopyPlacer has returned after capturing it, with or without an error, from
\* a file or a directory, the parent has that mtime.
C17_ParentMtimeRestored ==
    Captured =>
        /\ parentMtime = fs0[Dir(dstPath)].mtime
        /\ ppc = "returned" => fs[Dir(dstPath)].mtime = parentMtime

\* A directory was copied over a destination that held something: the old
\* content was removed from the parent and the new directory created in it.
C17_Witness ==
    /\ ppc = "returned"
    /\ srcStat = Type_Dir
    /\ placement.err = NilErr
    /\ dstPath \in DOMAIN fs0
    /\ dstPath \in DOMAIN fs
    /\ fs[dstPath] # fs0[dstPath]

-----------------------------------------------------------------------------
(* C18 *)

\* C18: after CopyPlacer succeeded on a directory, the tree at the destination
\* is the tree at the source, node for node: the same names, and for each the
\* same type, mode, mtime, link target and content (so a directory has the
\* source directory's mtime although children were written into it); and the
\* source is as it was.
C18_CopyEqualsSource ==
    (ppc = "returned" /\ srcStat = Type_Dir /\ placement.err = NilErr) =>
        /\ Tree(fs, dstPath) = Tree(fs, srcPath)
        /\ Tree(fs, srcPath) = Tree(fs0, srcPath)

\* A source with a file, a symlink and a directory holding a file was copied.
C18_Witness ==
    /\ ppc = "returned"
    /\ srcStat = Type_Dir
    /\ placement.err = NilErr
    /\ DOMAIN Tree(fs, dstPath) = {<<>>} \cup DOMAIN OptionalNodes

-----------------------------------------------------------------------------
(* C19 *)

\* C19: once the cleanup func of a successful placement has been invoked,
\* either it reported no error, and then nothing is left at or below the
\* destination path, or its error is an ErrLocalCacheProblem; the source is
\* as it was in both cases.
C19_CleanupUnwinds ==
    ppc = "cleaned" =>
        /\ placement.cleanupErr = NilErr => \A l \in DOMAIN fs : ~Below(dstPath, l)
        /\ placement.cleanupErr # NilErr =>
              Category(placement.cleanupErr) = ErrLocalCacheProblem
        /\ Tree(fs, srcPath) = Tree(fs0, srcPath)

\* The copy of a directory with content was removed again.
C19_Witness ==
    /\ ppc = "cleaned"
    /\ placement.cleanup = "os.RemoveAll"
    /\ placement.cleanupErr = NilErr
    /\ srcPath \o <<"s", "g">> \in DOMAIN fs
    /\ dstPath \notin DOMAIN fs

-----------------------------------------------------------------------------
(* C20 *)

\* The source does not exist, or is neither a directory nor a regular file.
BadSource ==
    \/ srcPath \notin DOMAIN fs0
    \/ fs0[srcPath].type \notin {Type_Dir, Type_File}

\* C20: called on a source that does not exist or is neither a directory nor
\* a regular file, CopyPlacer returns an ErrAssemblyInvalid error and the
\* destination is as it was.
C20_BadSourceIsAssemblyInvalid ==
    (BadSource /\ ppc = "returned") =>
        /\ Category(placement.err) = ErrAssemblyInvalid
        /\ fs = fs0

-----------------------------------------------------------------------------
(* C25 *)

\* C25: after CopyPlacer succeeded, every node at or below the destination is
\* the source's node of that name (for a file source, the source file), so
\* nothing that was at the destination before the call is left.
C25_DestinationReplaced ==
    (ppc = "returned" /\ placement.err = NilErr) =>
        \A n \in DOMAIN Tree(fs, dstPath) :
            /\ n \in DOMAIN Tree(fs0, srcPath)
            /\ Tree(fs, dstPath)[n] = Tree(fs0, srcPath)[n]

\* A directory without a file "f" was copied to a destination that was a
\* directory holding a file "f".
C25_Witness ==
    /\ ppc = "returned"
    /\ placement.err = NilErr
    /\ srcStat = Type_Dir
    /\ dstPath \o <<"f">> \in DOMAIN fs0
    /\ srcPath \o <<"f">> \notin DOMAIN fs0
    /\ srcPath \o <<"s">> \in DOMAIN fs0

-----------------------------------------------------------------------------
(* C27 *)

\* C27: whenever CopyPlacer has returned, it returned a cleanup func exactly
\* if it returned no error.
C27_CleanupIffNoError ==
    ppc = "returned" => (placement.cleanup # "nil" <=> placement.err = NilErr)

-----------------------------------------------------------------------------
(* C24 *)

\* C24: with the context cancelled, the entry whose placing has begun is
\* still placed and recorded, and reading the next header returns
\* ErrCancelled at once: for that entry nothing is conjured or placed on the
\* filesystem and nothing is added to the bucket.
C24_CancelAtEntryBoundary ==
    [][ /\ (ctxErr /\ pc = "place" /\ PlaceEntry(fs, bucket, fmeta).err = "nil") =>
              /\ pc' = "next"
              /\ Len(bucket') > Len(bucket)
              /\ bucket'[Len(bucket')].Metadata = fmeta
              /\ LStat(fs', fmeta.name) = "nil"
        /\ (ctxErr /\ pc = "next" /\ pos' = pos + 1) =>
              /\ pc' = "done"
              /\ Category(result'.err) = ErrCancelled
              /\ fs' = fs
              /\ bucket' = bucket ]_vars

\* The context was cancelled while the first entry was being placed; the
\* entry was placed and recorded, the second header read, and unpack
\* returned ErrCancelled.
C24_Witness ==
    /\ pc = "done"
    /\ cancelledAt = "place"
    /\ Category(result.err) = ErrCancelled
    /\ pos = 2
    /\ Len(bucket) >= 1
    /\ bucket[Len(bucket)].Metadata.name # thdr.name

-----------------------------------------------------------------------------
(* C21 *)

-----------------------------------------------------------------------------
(* C22 *)

\* C22: when Main has returned from a run whose command line did not parse,
\* no pack, unpack or scan function was called and the filesystem is as it
\* was, the exit code is 2, stdout is empty unless --format=json was given,
\* and stderr is not empty.
C22_ParseErrorIsUsage ==
    (exitCode # NotExited /\ parseErr # "nil") =>
        /\ calls = {}
        /\ fs = fs0
        /\ exitCode = 2
        /\ format # "json" => stdout = <<>>
        /\ stderr # <<>>

\* rio without arguments: the usage and the error are on stderr.
C22_Witness ==
    /\ exitCode = 2
    /\ command = ""
    /\ format = "dumb"
    /\ Len(stderr) = 2
    /\ stdout = <<>>

-----------------------------------------------------------------------------
(* C26 *)

\* A SIGINT was delivered after signal.Notify had registered the channel.
SigintAfterNotify == \E i \in DOMAIN sigints : sigints[i] # "default"

\* C26: a SIGINT delivered after the goroutine has registered leads to the
\* context being cancelled, unless the process ends first; and no SIGINT
\* makes the process panic.
C26_SigintCancelsAndIsHarmless ==
    /\ [](proc # "panicked")
    /\ [](SigintAfterNotify => <>(ctxErr \/ proc \notin {"running", "returned"}))

-----------------------------------------------------------------------------
(* C23 *)

\* The callers that hold the lock.
Holders == {c \in Callers : cpc[c] \in {"locked", "build", "failed", "commit"}}

SuccessfulBuilds == {i \in DOMAIN inner : inner[i].err = NilErr}

Returned == {c \in Callers : cpc[c] = "done"}

====
